---------------------------- MODULE Spec2Model ----------------------------
(***************************************************************************)
(* Azure DevOps Backlog API: the request pipeline of routers/backlog.py,   *)
(* routers/projects.py and services/azure_devops.py as a state machine.    *)
(*                                                                         *)
(* A text (Python str) is a sequence of one-character strings; fixed       *)
(* message fragments are written as a single element.  An Optional[str]    *)
(* is a text or None; an Optional[int] / Optional[model] is the empty set  *)
(* (None) or a singleton.                                                  *)
(***************************************************************************)
EXTENDS Integers, Sequences, FiniteSets, TLC

\* --------------------------------------------------------------- platform

\* whether the platform's strftime pads %Y to four digits
VARIABLE pads_year

\* ------------------------------------------------------------------ texts

None == <<"None">>

\* Python truthiness of an Optional[str]: None and "" are falsy.
Truthy(s) == s # None /\ s # <<>>

\* Python truthiness of an Optional[int]: None and 0 are falsy.
TruthyInt(o) == o # {} /\ o # {0}

TheInt(o) == CHOOSE v \in o : TRUE

Digits == <<"0", "1", "2", "3", "4", "5", "6", "7", "8", "9">>

IsDigit(c) == \E i \in 1..10 : Digits[i] = c

DigitVal(c) == (CHOOSE i \in 1..10 : Digits[i] = c) - 1

AllDigits(s) == \A i \in 1..Len(s) : IsDigit(s[i])

RECURSIVE Num(_)
Num(s) == IF s = <<>> THEN 0 ELSE 10 * Num(SubSeq(s, 1, Len(s) - 1)) + DigitVal(s[Len(s)])

\* str(n) for n >= 0
RECURSIVE IntText(_)
IntText(n) == IF n < 10 THEN <<Digits[n + 1]>> ELSE IntText(n \div 10) \o <<Digits[(n % 10) + 1]>>

\* zero-padded decimal of width w (strftime's %Y, %m, %d)
RECURSIVE Pad(_, _)
Pad(t, w) == IF Len(t) >= w THEN t ELSE Pad(<<"0">> \o t, w)

\* s.split(sep) for a one-character separator
RECURSIVE Split(_, _)
Split(s, sep) ==
    IF \A i \in 1..Len(s) : s[i] # sep THEN <<s>>
    ELSE LET k == CHOOSE i \in 1..Len(s) : s[i] = sep /\ \A j \in 1..(i - 1) : s[j] # sep
         IN  <<SubSeq(s, 1, k - 1)>> \o Split(SubSeq(s, k + 1, Len(s)), sep)

\* ------------------------------------------------------------------ dates

isleap(year) == year % 4 = 0 /\ (year % 100 # 0 \/ year % 400 = 0)

mdays == <<31, 28, 31, 30, 31, 30, 31, 31, 30, 31, 30, 31>>

\* calendar.monthrange(year, month)[1]
monthrange(year, month) == mdays[month] + (IF month = 2 /\ isleap(year) THEN 1 ELSE 0)

\* date(year, month, day) raises ValueError outside MINYEAR..MAXYEAR, 1..12
\* and 1..monthrange
ValidDate(y, m, d) ==
    /\ y >= 1 /\ y <= 9999
    /\ m >= 1 /\ m <= 12
    /\ d >= 1 /\ d <= monthrange(y, m)

\* date.strftime("%Y-%m-%d"): the C library's strftime renders the fields, and
\* whether %Y of a year below 1000 is zero-padded depends on the platform
strftime_Ymd(y, m, d) ==
    (IF pads_year THEN Pad(IntText(y), 4) ELSE IntText(y)) \o <<"-">> \o Pad(IntText(m), 2) \o <<"-">> \o Pad(IntText(d), 2)

\* The %d field of strptime: "3[01]|[12]\d|0[1-9]|[1-9]| [1-9]"
DayFieldOk(p) ==
    \/ Len(p) \in {1, 2} /\ AllDigits(p) /\ Num(p) \in 1..31
    \/ Len(p) = 2 /\ p[1] = " " /\ IsDigit(p[2]) /\ DigitVal(p[2]) >= 1

DayFieldNum(p) == IF p[1] = " " THEN DigitVal(p[2]) ELSE Num(p)

\* datetime.strptime(s, '%Y-%m-%d') succeeds: %Y is four digits, %m one or
\* two digits in 1..12, %d as above, nothing left over, and the triple is a
\* calendar date.
strptime_Ymd_ok(s) ==
    LET p == Split(s, "-") IN
    /\ Len(p) = 3
    /\ Len(p[1]) = 4 /\ AllDigits(p[1])
    /\ Len(p[2]) \in {1, 2} /\ AllDigits(p[2]) /\ Num(p[2]) \in 1..12
    /\ DayFieldOk(p[3])
    /\ ValidDate(Num(p[1]), Num(p[2]), DayFieldNum(p[3]))

\* ------------------------------------------------------------- exceptions

HTTPException(status_code, detail) ==
    [type |-> "HTTPException", status_code |-> status_code, detail |-> detail]

\* any other exception; detail is str(e)
OtherException(type, message) ==
    [type |-> type, status_code |-> 0, detail |-> message]

Returned(v) == [ok |-> TRUE, value |-> v]

Raised(e) == [ok |-> FALSE, exc |-> e]

\* ---------------------------------------------------------- utils/helpers

get_first_and_last_day_of_month(year, month) ==
    IF year < 1 \/ year > 9999
    THEN Raised(OtherException("ValueError",
                 <<"year ">> \o IntText(year) \o <<" is out of range">>))
    ELSE IF month < 1 \/ month > 12
    THEN Raised(OtherException("ValueError", <<"month must be in 1..12">>))
    ELSE Returned(<<strftime_Ymd(year, month, 1),
                    strftime_Ymd(year, month, monthrange(year, month))>>)

\* get_env_or_param preferring the configured default to the request's value
EnvBeforeParam(param_value, env_value, param_name) ==
    IF Truthy(env_value) THEN Returned(env_value)
    ELSE IF Truthy(param_value) THEN Returned(param_value)
    ELSE Raised(HTTPException(400,
                 <<param_name>> \o <<" deve ser fornecido no request ou definido no .env">>))

get_env_or_param(param_value, env_value, param_name) ==
    IF Truthy(param_value) THEN Returned(param_value)
    ELSE IF Truthy(env_value) THEN Returned(env_value)
    ELSE Raised(HTTPException(400,
                 <<param_name>> \o <<" deve ser fornecido no request ou definido no .env">>))

\* the Authorization header of create_auth_headers; the base64 encoding of
\* ":" + pat is kept symbolic
create_auth_headers(pat) ==
    [Authorization |-> <<"Basic ", "b64(", ":">> \o pat \o <<")">>]

\* ------------------------------------------------ services/azure_devops

\* Python truthiness of an Optional[List[str]]: None and [] are falsy.
TruthyList(o) == o # {} /\ o # {<<>>}

TheList(o) == CHOOSE v \in o : TRUE

Quote(t) == <<"'">> \o t \o <<"'">>

\* sep.join(parts)
RECURSIVE Join(_, _)
Join(parts, sep) ==
    IF parts = <<>> THEN <<>>
    ELSE IF Len(parts) = 1 THEN parts[1]
    ELSE parts[1] \o sep \o Join(Tail(parts), sep)

QuoteAll(list) == [i \in 1..Len(list) |-> Quote(list[i])]

InClause(field, list) == <<field, " IN (">> \o Join(QuoteAll(list), <<", ">>) \o <<")">>

\* the paths put in one IN list
UnderAsInList(field, list) == <<InClause(field, list)>>

UnderClauses(field, list) == [i \in 1..Len(list) |-> <<field, " UNDER ">> \o Quote(list[i])]

_build_filter_clauses(filters) ==
       (IF TruthyList(filters.work_item_types)
        THEN <<InClause("[System.WorkItemType]", TheList(filters.work_item_types))>> ELSE <<>>)
    \o (IF TruthyList(filters.states)
        THEN <<InClause("[System.State]", TheList(filters.states))>> ELSE <<>>)
    \o (IF TruthyList(filters.area_paths)
        THEN UnderClauses("[System.AreaPath]", TheList(filters.area_paths)) ELSE <<>>)
    \o (IF TruthyList(filters.iteration_paths)
        THEN UnderClauses("[System.IterationPath]", TheList(filters.iteration_paths)) ELSE <<>>)
    \o (IF TruthyList(filters.assigned_to)
        THEN <<InClause("[System.AssignedTo]", TheList(filters.assigned_to))>> ELSE <<>>)
    \o (IF Truthy(filters.tags)
        THEN <<(<<"[System.Tags]", " CONTAINS ">> \o Quote(filters.tags))>> ELSE <<>>)

\* the where_clauses list with the date clauses added only as a pair
WhereClausesDatesPaired(project_name, start_date, end_date, filters) ==
       << (<<"[System.TeamProject]", " = ">> \o Quote(project_name)) >>
    \o (IF Truthy(start_date) /\ Truthy(end_date)
        THEN << (<<"[System.CreatedDate]", " >= ">> \o Quote(start_date)),
                (<<"[System.CreatedDate]", " <= ">> \o Quote(end_date)) >> ELSE <<>>)
    \o (IF filters # {} THEN _build_filter_clauses(TheList(filters)) ELSE <<>>)

\* the where_clauses list of _query_work_items; filters is {} (None) or {f}
where_clauses(project_name, start_date, end_date, filters) ==
       << (<<"[System.TeamProject]", " = ">> \o Quote(project_name)) >>
    \o (IF Truthy(start_date)
        THEN << (<<"[System.CreatedDate]", " >= ">> \o Quote(start_date)) >> ELSE <<>>)
    \o (IF Truthy(end_date)
        THEN << (<<"[System.CreatedDate]", " <= ">> \o Quote(end_date)) >> ELSE <<>>)
    \o (IF filters # {} THEN _build_filter_clauses(TheList(filters)) ELSE <<>>)

wiql(project_name, start_date, end_date, filters) ==
       <<"SELECT [System.Id] FROM WorkItems WHERE ">>
    \o Join(where_clauses(project_name, start_date, end_date, filters), <<" AND ">>)
    \o <<" ORDER BY [System.CreatedDate] DESC">>

\* AzureDevOpsService.__init__
AzureDevOpsService(organization, project_name, pat) ==
    [organization |-> organization, project_name |-> project_name, pat |-> pat,
     headers |-> create_auth_headers(pat)]

NoService == AzureDevOpsService(None, None, None)

\* the outbound POST of _query_work_items
WiqlCall(svc, start_date, end_date, filters) ==
    [kind |-> "wiql", organization |-> svc.organization, project |-> svc.project_name,
     headers |-> svc.headers,
     payload |-> wiql(svc.project_name, start_date, end_date, filters),
     completed |-> FALSE]

batch_size == 200

Min(a, b) == IF a < b THEN a ELSE b

\* the slice taken one ID too long
BatchIdsOverlapping(work_item_ids, i) ==
    SubSeq(work_item_ids, i + 1, Min(i + batch_size + 1, Len(work_item_ids)))

\* work_item_ids[i:i + batch_size] for the 0-based offset i
BatchIds(work_item_ids, i) == SubSeq(work_item_ids, i + 1, Min(i + batch_size, Len(work_item_ids)))

\* the loop of _get_work_items_details advancing by half a batch
NextOffsetHalfBatch(i) == i + batch_size \div 2

\* range(0, len(work_item_ids), batch_size): the offset after offset i
NextOffset(i) == i + batch_size

\* the outbound GET of one batch of _get_work_items_details
WorkItemsCall(svc, batch_ids) ==
    [kind |-> "workitems", organization |-> svc.organization, project |-> svc.project_name,
     headers |-> svc.headers, payload |-> batch_ids, completed |-> FALSE]

\* the outbound GET of get_projects
ProjectsCall(svc, top, skip, continuation_token) ==
    [kind |-> "projects", organization |-> svc.organization, project |-> svc.project_name,
     headers |-> svc.headers,
     payload |-> [top |-> top, skip |-> skip,
                  continuationToken |-> IF Truthy(continuation_token)
                                        THEN continuation_token ELSE None],
     completed |-> FALSE]

\* a key missing from a JSON object (dict.get then yields its default)
Absent == <<"Absent">>

Get(v, default) == IF v = Absent THEN default ELSE v

\* --- the JSON of a raw work item

\* a key the object does not hold
Missing == [json |-> "missing"]

Null == [json |-> "null"]

String(text) == [json |-> "string", text |-> text]

Number(n) == [json |-> "number", n |-> n]

\* an identity object such as System.CreatedBy, by its displayName member
Identity(displayName) == [json |-> "object", displayName |-> displayName]

Array(items) == [json |-> "array", items |-> items]

\* the keys of "fields" that _create_work_item_response reads
FieldKeys ==
    {"System.Title", "System.State", "System.WorkItemType", "System.Tags",
     "System.CreatedBy", "System.AssignedTo", "System.AreaPath", "System.TeamProject",
     "System.IterationPath", "Microsoft.VSTS.Scheduling.CompletedWork",
     "Microsoft.VSTS.Scheduling.OriginalEstimate", "Microsoft.VSTS.Scheduling.StartDate",
     "Microsoft.VSTS.Scheduling.FinishDate", "System.CreatedDate", "System.ChangedDate",
     "Microsoft.VSTS.Common.ClosedDate"}

\* Python truthiness of fields.get(key)
TruthyJson(j) ==
    CASE j.json \in {"missing", "null"} -> FALSE
      [] j.json = "string" -> j.text # <<>>
      [] j.json = "array" -> j.items # <<>>
      [] j.json = "number" -> j.n # 0

\* fields.get(key) passed to a field declared Optional[str]
OptionalStr(j) ==
    CASE j.json \in {"missing", "null"} -> None
      [] j.json = "string" -> j.text

\* fields.get(key) passed to a field declared Optional[float]
OptionalFloat(j) ==
    CASE j.json \in {"missing", "null"} -> {}
      [] j.json = "number" -> {j.n}

\* --- utils/helpers.format_date

\* the time parts isoparse accepts after the date, among those the inputs use
IsoTimes == {"T10:30:00.000Z", "T12:00:00Z", "T23:30:00-03:00"}

\* parser.isoparse(t) returns: t is YYYY-MM-DD, a date of the calendar, alone
\* or followed by a time part
isoparse_ok(t) ==
    /\ Len(t) \in {10, 11}
    /\ t[5] = "-" /\ t[8] = "-"
    /\ AllDigits(SubSeq(t, 1, 4)) /\ AllDigits(SubSeq(t, 6, 7)) /\ AllDigits(SubSeq(t, 9, 10))
    /\ ValidDate(Num(SubSeq(t, 1, 4)), Num(SubSeq(t, 6, 7)), Num(SubSeq(t, 9, 10)))
    /\ Len(t) = 11 => t[11] \in IsoTimes

\* datetime.strftime("%d/%m/%Y"); the width of %Y is the platform's
strftime_dmY(y, m, d) ==
    Pad(IntText(d), 2) \o <<"/">> \o Pad(IntText(m), 2) \o <<"/">>
        \o (IF pads_year THEN Pad(IntText(y), 4) ELSE IntText(y))

\* format_date: None for a falsy value and for whatever isoparse raises on
format_date(iso_date) ==
    IF ~TruthyJson(iso_date) THEN Returned(None)
    ELSE IF iso_date.json = "string" /\ isoparse_ok(iso_date.text)
    THEN Returned(strftime_dmY(Num(SubSeq(iso_date.text, 1, 4)), Num(SubSeq(iso_date.text, 6, 7)),
                               Num(SubSeq(iso_date.text, 9, 10))))
    ELSE Returned(None)

\* --- the normalizer

Hierarchy_Reverse == <<"System.LinkTypes.Hierarchy-Reverse">>

\* int(text)
ParseInt(text) ==
    IF text # <<>> /\ AllDigits(text) THEN Returned(Num(text))
    ELSE Raised(OtherException("ValueError",
                 <<"invalid literal for int() with base 10: ">> \o Quote(text)))

\* positions of the reverse-hierarchy relations of a list
ReverseLinks(list) == {k \in 1..Len(list) : list[k].rel = Hierarchy_Reverse}

\* the parent read off the relation with its link left out
ParentOfWithoutLink(rel) ==
    IF ~Truthy(Get(rel.url, <<>>)) THEN Returned([parent_id |-> {}, parent_link |-> None])
    ELSE LET segments == Split(rel.url, "/")
             id       == ParseInt(segments[Len(segments)])
         IN  IF ~id.ok THEN id
             ELSE Returned([parent_id |-> {id.value}, parent_link |-> None])

\* the parent read off the relation rel: (None, None) for a falsy URL
ParentOf(rel) ==
    IF ~Truthy(Get(rel.url, <<>>)) THEN Returned([parent_id |-> {}, parent_link |-> None])
    ELSE LET segments == Split(rel.url, "/")
             id       == ParseInt(segments[Len(segments)])
         IN  IF ~id.ok THEN id
             ELSE Returned([parent_id |-> {id.value}, parent_link |-> rel.url])

\* _extract_parent_info reading the last reverse-hierarchy relation
ExtractParentFromLast(relations) ==
    IF ~TruthyJson(relations) \/ ReverseLinks(relations.items) = {}
    THEN Returned([parent_id |-> {}, parent_link |-> None])
    ELSE ParentOf(relations.items[CHOOSE k \in ReverseLinks(relations.items) :
                                 \A j \in ReverseLinks(relations.items) : j <= k])

\* _extract_parent_info keeping the link of a parent it has no id for
ExtractParentKeepingLink(relations) ==
    IF ~TruthyJson(relations) \/ ReverseLinks(relations.items) = {}
    THEN Returned([parent_id |-> {}, parent_link |-> None])
    ELSE LET first == relations.items[CHOOSE k \in ReverseLinks(relations.items) :
                                     \A j \in ReverseLinks(relations.items) : k <= j]
             p     == ParentOf(first)
         IN  IF p.ok /\ p.value.parent_id = {}
             THEN Returned([parent_id |-> {}, parent_link |-> Get(first.url, <<>>)])
             ELSE p

\* _extract_parent_info: the loop stops at the first reverse-hierarchy
\* relation, whether or not it has a URL
_extract_parent_info(relations) ==
    IF ~TruthyJson(relations) \/ ReverseLinks(relations.items) = {}
    THEN Returned([parent_id |-> {}, parent_link |-> None])
    ELSE ParentOf(relations.items[CHOOSE k \in ReverseLinks(relations.items) :
                                 \A j \in ReverseLinks(relations.items) : k <= j])

_get_display_name(field_value) ==
    IF field_value.json = "object" THEN OptionalStr(field_value.displayName) ELSE None

\* _create_work_item_response: the parent is extracted first, then the
\* WorkItemResponse is built and validated: an item without an integer id or
\* with a null title is rejected
_create_work_item_response(item) ==
    LET fields == item.fields
        parent == _extract_parent_info(item.relations)
        start  == format_date(fields["Microsoft.VSTS.Scheduling.StartDate"])
        finish == format_date(fields["Microsoft.VSTS.Scheduling.FinishDate"])
        created == format_date(fields["System.CreatedDate"])
        changed == format_date(fields["System.ChangedDate"])
        closed == format_date(fields["Microsoft.VSTS.Common.ClosedDate"])
    IN  IF ~parent.ok THEN parent
        ELSE IF ~start.ok THEN start
        ELSE IF ~finish.ok THEN finish
        ELSE IF ~created.ok THEN created
        ELSE IF ~changed.ok THEN changed
        ELSE IF ~closed.ok THEN closed
        ELSE IF item.id = {}
        THEN Raised(OtherException("ValidationError",
                     <<"1 validation error for WorkItemResponse id">>))
        ELSE IF fields["System.Title"].json = "null"
        THEN Raised(OtherException("ValidationError",
                     <<"1 validation error for WorkItemResponse title">>))
        ELSE Returned(
            [id |-> TheInt(item.id),
             title |-> IF fields["System.Title"].json = "missing" THEN <<>>
                       ELSE fields["System.Title"].text,
             state |-> OptionalStr(fields["System.State"]),
             work_item_type |-> IF fields["System.WorkItemType"].json = "missing" THEN <<>>
                                ELSE OptionalStr(fields["System.WorkItemType"]),
             tags |-> OptionalStr(fields["System.Tags"]),
             created_by |-> _get_display_name(fields["System.CreatedBy"]),
             assigned_to |-> _get_display_name(fields["System.AssignedTo"]),
             area_path |-> OptionalStr(fields["System.AreaPath"]),
             team_project |-> OptionalStr(fields["System.TeamProject"]),
             iteration_path |-> OptionalStr(fields["System.IterationPath"]),
             completed_work |->
                 OptionalFloat(fields["Microsoft.VSTS.Scheduling.CompletedWork"]),
             original_estimate |->
                 OptionalFloat(fields["Microsoft.VSTS.Scheduling.OriginalEstimate"]),
             start_date |-> start.value,
             finish_date |-> finish.value,
             created_date |-> created.value,
             changed_date |-> changed.value,
             closed_date |-> closed.value,
             parent_id |-> parent.value.parent_id,
             parent_link |-> parent.value.parent_link])

parent_types == {<<"Epic">>, <<"Feature">>, <<"User Story">>, <<"Product Backlog Item">>}

\* _categorize_work_items with an item of empty type put in neither list
RECURSIVE CategorizeDroppingUntyped(_)
CategorizeDroppingUntyped(work_items) ==
    IF work_items = <<>> THEN Returned([parents |-> <<>>, children |-> <<>>])
    ELSE LET n    == Len(work_items)
             rest == CategorizeDroppingUntyped(SubSeq(work_items, 1, n - 1))
             r    == _create_work_item_response(work_items[n])
         IN  IF ~rest.ok THEN rest
             ELSE IF ~r.ok THEN r
             ELSE IF r.value.work_item_type \in parent_types
             THEN Returned([parents  |-> Append(rest.value.parents, r.value),
                            children |-> rest.value.children])
             ELSE IF r.value.work_item_type = <<>> THEN rest
             ELSE Returned([parents  |-> rest.value.parents,
                            children |-> Append(rest.value.children, r.value)])

\* _categorize_work_items with each item inserted at the front of its list
RECURSIVE CategorizePrepending(_)
CategorizePrepending(work_items) ==
    IF work_items = <<>> THEN Returned([parents |-> <<>>, children |-> <<>>])
    ELSE LET n    == Len(work_items)
             rest == CategorizePrepending(SubSeq(work_items, 1, n - 1))
             r    == _create_work_item_response(work_items[n])
         IN  IF ~rest.ok THEN rest
             ELSE IF ~r.ok THEN r
             ELSE IF r.value.work_item_type \in parent_types
             THEN Returned([parents  |-> <<r.value>> \o rest.value.parents,
                            children |-> rest.value.children])
             ELSE Returned([parents  |-> rest.value.parents,
                            children |-> <<r.value>> \o rest.value.children])

\* _categorize_work_items, the loop body: the built item is appended to
\* parents or children; the first item that cannot be built raises
PlaceItem(rest, r) ==
    IF ~rest.ok THEN rest
    ELSE IF ~r.ok THEN r
    ELSE IF r.value.work_item_type \in parent_types
    THEN Returned([parents  |-> Append(rest.value.parents, r.value),
                   children |-> rest.value.children])
    ELSE Returned([parents  |-> rest.value.parents,
                   children |-> Append(rest.value.children, r.value)])

\* _categorize_work_items: one pass over work_items
RECURSIVE _categorize_work_items(_)
_categorize_work_items(work_items) ==
    IF work_items = <<>> THEN Returned([parents |-> <<>>, children |-> <<>>])
    ELSE PlaceItem(_categorize_work_items(SubSeq(work_items, 1, Len(work_items) - 1)),
                   _create_work_item_response(work_items[Len(work_items)]))

\* x or "none"
OrNone(x) == IF Truthy(x) THEN x ELSE <<"none">>

\* get_backlog_data, the empty short-circuit
EmptyBacklogResponse(svc, start_date, end_date) ==
    [total_items |-> 0, parents |-> <<>>, children |-> <<>>,
     metadata |-> [start_date |-> OrNone(start_date), end_date |-> OrNone(end_date),
                   organization |-> svc.organization, project |-> svc.project_name]]

\* the BacklogResponse with the two counts of the metadata exchanged
BacklogResponseCountsSwapped(svc, start_date, end_date, work_items) ==
    LET c == _categorize_work_items(work_items) IN
    IF ~c.ok THEN c
    ELSE Returned(
        [total_items |-> Len(work_items),
         parents |-> c.value.parents, children |-> c.value.children,
         metadata |-> [start_date |-> OrNone(start_date), end_date |-> OrNone(end_date),
                       organization |-> svc.organization, project |-> svc.project_name,
                       total_parents |-> Len(c.value.children),
                       total_children |-> Len(c.value.parents)]])

\* get_backlog_data, the BacklogResponse built from the categorized items
Assemble(svc, start_date, end_date, work_items, c) ==
    IF ~c.ok THEN c
    ELSE Returned(
        [total_items |-> Len(work_items),
         parents |-> c.value.parents, children |-> c.value.children,
         metadata |-> [start_date |-> OrNone(start_date), end_date |-> OrNone(end_date),
                       organization |-> svc.organization, project |-> svc.project_name,
                       total_parents |-> Len(c.value.parents),
                       total_children |-> Len(c.value.children)]])

\* get_backlog_data, after the details are fetched: categorize and assemble
BacklogResponse(svc, start_date, end_date, work_items) ==
    Assemble(svc, start_date, end_date, work_items, _categorize_work_items(work_items))

\* has_more taken from the truthiness of the header value
ProjectsListHasMoreIfTruthy(value, count, next_token) ==
    [count |-> Len(value), total_count |-> count,
     projects |-> [i \in 1..Len(value) |->
                     [id |-> Get(value[i].id, <<>>), name |-> Get(value[i].name, <<>>)]],
     continuation_token |-> next_token,
     has_more |-> Truthy(next_token)]

\* get_projects, on status 200
ProjectsListResponse(value, count, next_token) ==
    [count |-> Len(value), total_count |-> count,
     projects |-> [i \in 1..Len(value) |->
                     [id |-> Get(value[i].id, <<>>), name |-> Get(value[i].name, <<>>)]],
     continuation_token |-> next_token,
     has_more |-> (next_token # None)]

\* --------------------------------------------------------- routers/backlog

\* the date range with year and month tried before the explicit dates
ResolveDatesMonthFirst(request) ==
    IF TruthyInt(request.year) /\ TruthyInt(request.month)
    THEN get_first_and_last_day_of_month(TheInt(request.year), TheInt(request.month))
    ELSE IF Truthy(request.start_date) /\ Truthy(request.end_date)
    THEN Returned(<<request.start_date, request.end_date>>)
    ELSE Returned(<<None, None>>)

\* the date range with an explicit bound kept when the other is not given
ResolveDatesLoneBound(request) ==
    IF Truthy(request.start_date) \/ Truthy(request.end_date)
    THEN Returned(<<request.start_date, request.end_date>>)
    ELSE IF TruthyInt(request.year) /\ TruthyInt(request.month)
    THEN get_first_and_last_day_of_month(TheInt(request.year), TheInt(request.month))
    ELSE Returned(<<None, None>>)

\* get_backlog: "Determina as datas"
ResolveDates(request) ==
    IF Truthy(request.start_date) /\ Truthy(request.end_date)
    THEN Returned(<<request.start_date, request.end_date>>)
    ELSE IF TruthyInt(request.year) /\ TruthyInt(request.month)
    THEN get_first_and_last_day_of_month(TheInt(request.year), TheInt(request.month))
    ELSE Returned(<<None, None>>)

\* get_backlog: "Validacao de datas (apenas se especificadas)"
ValidateDates(start_date, end_date) ==
    IF Truthy(start_date) /\ Truthy(end_date)
       /\ ~(strptime_Ymd_ok(start_date) /\ strptime_Ymd_ok(end_date))
    THEN Raised(HTTPException(400, <<"Formato de data inválido. Use YYYY-MM-DD">>))
    ELSE Returned(<<start_date, end_date>>)

\* get_backlog with the dates resolved and validated before the organization
\* and the token
GetBacklogBeginDatesFirst(request, cfg) ==
    LET organization == get_env_or_param(request.organization, cfg.default_organization,
                                         "organization")
        pat   == get_env_or_param(request.pat, cfg.azure_devops_pat, "Personal Access Token")
        dates == ResolveDates(request)
        valid == ValidateDates(dates.value[1], dates.value[2])
    IN  IF ~dates.ok THEN dates
        ELSE IF ~valid.ok THEN valid
        ELSE IF ~organization.ok THEN organization
        ELSE IF ~pat.ok THEN pat
        ELSE Returned([service |-> AzureDevOpsService(organization.value,
                                                      request.project_name, pat.value),
                       start_date |-> dates.value[1], end_date |-> dates.value[2],
                       filters |-> request.filters])

\* get_backlog up to the await of get_backlog_data: what it raises, or the
\* service it built and the arguments of the call
get_backlog_begin(request, cfg) ==
    LET organization == get_env_or_param(request.organization, cfg.default_organization,
                                         "organization")
        pat   == get_env_or_param(request.pat, cfg.azure_devops_pat, "Personal Access Token")
        dates == ResolveDates(request)
        valid == ValidateDates(dates.value[1], dates.value[2])
    IN  IF ~organization.ok THEN organization
        ELSE IF ~pat.ok THEN pat
        ELSE IF ~dates.ok THEN dates
        ELSE IF ~valid.ok THEN valid
        ELSE Returned([service |-> AzureDevOpsService(organization.value,
                                                      request.project_name, pat.value),
                       start_date |-> dates.value[1], end_date |-> dates.value[2],
                       filters |-> request.filters])

\* the WorkItemRequest built with each list parameter as a single entry
QueryParamsUnsplit(q) ==
    [organization |-> q.organization, project_name |-> q.project_name, pat |-> q.pat,
     start_date |-> q.start_date, end_date |-> q.end_date,
     year |-> q.year, month |-> q.month,
     filters |->
        IF \/ Truthy(q.work_item_types) \/ Truthy(q.states) \/ Truthy(q.area_paths)
           \/ Truthy(q.iteration_paths) \/ Truthy(q.assigned_to) \/ Truthy(q.tags)
        THEN {[work_item_types |-> IF Truthy(q.work_item_types)
                                   THEN {<<q.work_item_types>>} ELSE {},
               states          |-> IF Truthy(q.states) THEN {<<q.states>>} ELSE {},
               area_paths      |-> IF Truthy(q.area_paths) THEN {<<q.area_paths>>} ELSE {},
               iteration_paths |-> IF Truthy(q.iteration_paths)
                                   THEN {<<q.iteration_paths>>} ELSE {},
               assigned_to     |-> IF Truthy(q.assigned_to) THEN {<<q.assigned_to>>} ELSE {},
               tags            |-> q.tags]}
        ELSE {}]

\* a comma-separated query parameter as an Optional[List[str]]
SplitParam(x) == IF Truthy(x) THEN {Split(x, ",")} ELSE {}

\* get_backlog_query_params: the WorkItemRequest built from the query string
get_backlog_query_params(q) ==
    [organization |-> q.organization, project_name |-> q.project_name, pat |-> q.pat,
     start_date |-> q.start_date, end_date |-> q.end_date,
     year |-> q.year, month |-> q.month,
     filters |->
        IF \/ Truthy(q.work_item_types) \/ Truthy(q.states) \/ Truthy(q.area_paths)
           \/ Truthy(q.iteration_paths) \/ Truthy(q.assigned_to) \/ Truthy(q.tags)
        THEN {[work_item_types |-> SplitParam(q.work_item_types),
               states          |-> SplitParam(q.states),
               area_paths      |-> SplitParam(q.area_paths),
               iteration_paths |-> SplitParam(q.iteration_paths),
               assigned_to     |-> SplitParam(q.assigned_to),
               tags            |-> q.tags]}
        ELSE {}]

\* get_backlog_diagnostics up to the await of get_backlog_data
get_backlog_diagnostics_begin(q, cfg) ==
    Returned([service |-> AzureDevOpsService(
                             IF Truthy(q.organization) THEN q.organization
                             ELSE cfg.default_organization,
                             q.project_name, cfg.azure_devops_pat),
              start_date |-> None, end_date |-> None, filters |-> {}])

\* x or ""
OrEmpty(x) == IF Truthy(x) THEN x ELSE <<>>

\* list_projects up to the await of get_projects
list_projects_begin(q, cfg) ==
    LET org   == get_env_or_param(q.organization, OrEmpty(cfg.default_organization),
                                  "organization")
        token == get_env_or_param(q.pat, OrEmpty(cfg.azure_devops_pat),
                                  "Personal Access Token")
    IN  IF ~org.ok THEN org
        ELSE IF ~token.ok THEN token
        ELSE Returned([service |-> AzureDevOpsService(org.value, <<>>, token.value)])

\* str(e): an HTTPException prints as "<status_code>: <detail>"
StrExc(e) ==
    IF e.type = "HTTPException" THEN IntText(e.status_code) \o <<": ">> \o e.detail
    ELSE e.detail

HttpError(status, detail) == [status |-> status, detail |-> detail, body |-> None]

HttpOk(body) == [status |-> 200, detail |-> None, body |-> body]

\* get_backlog with the single except clause of get_backlog_diagnostics
ExceptAllAs500(e) == HttpError(500, StrExc(e))

\* get_backlog answering an unexpected failure with its bare message
ExceptWithoutPrefix(e) ==
    IF e.type = "HTTPException" THEN HttpError(e.status_code, e.detail)
    ELSE HttpError(500, e.detail)

\* the except clauses of get_backlog (also reached from get_backlog_query_params)
get_backlog_except(e) ==
    IF e.type = "HTTPException" THEN HttpError(e.status_code, e.detail)
    ELSE HttpError(500, <<"Erro interno do servidor: ">> \o e.detail)

\* the except clause of get_backlog_diagnostics
get_backlog_diagnostics_except(e) == HttpError(500, StrExc(e))

\* the except clauses of list_projects
list_projects_except(e) ==
    IF e.type = "HTTPException" THEN HttpError(e.status_code, e.detail)
    ELSE HttpError(500, <<"Erro interno: ">> \o e.detail)

Except(ep, e) ==
    IF ep = "GET /backlog/diagnostics" THEN get_backlog_diagnostics_except(e)
    ELSE IF ep = "GET /projects" THEN list_projects_except(e)
    ELSE get_backlog_except(e)

\* item.work_item_type or "Unknown"
TypeOrUnknown(item) == IF Truthy(item.work_item_type) THEN item.work_item_type ELSE <<"Unknown">>

\* get_backlog_diagnostics: the per-type count and the answer
DiagnosticsBody(project_name, response) ==
    LET all_items == response.parents \o response.children
        types     == {TypeOrUnknown(all_items[i]) : i \in 1..Len(all_items)}
    IN  [project_name |-> project_name,
         total_items |-> response.total_items,
         work_item_type_counts |->
            [t \in types |-> Cardinality({i \in 1..Len(all_items) : TypeOrUnknown(all_items[i]) = t})],
         sample_items |->
            [k \in 1..Min(20, Len(all_items)) |->
                [id |-> all_items[k].id,
                 title |-> SubSeq(all_items[k].title, 1, Min(80, Len(all_items[k].title))),
                 type |-> all_items[k].work_item_type,
                 state |-> all_items[k].state]]]

\* what the endpoint returns for the service's BacklogResponse
Return(ep, project_name, response) ==
    IF ep = "GET /backlog/diagnostics" THEN HttpOk(DiagnosticsBody(project_name, response))
    ELSE HttpOk(response)

\* ---------------------------------------------------------------- logging

\* one record handed to a logger: the logger's name, the level and the
\* formatted message
LogRecord(name, level, message) == [name |-> name, level |-> level, message |-> message]

\* %s of a bool
BoolText(b) == IF b THEN <<"True">> ELSE <<"False">>

\* %s of an Optional[int]
OptionalIntText(o) == IF o = {} THEN None ELSE IntText(TheInt(o))

\* %.1f of a duration read from time.perf_counter(), which is not modelled
duration_ms == <<"<duration_ms>">>

\* WorkItemFilters.summarize
summarize(f) ==
    LET count(name, list) ==
            IF TruthyList(list) THEN << <<name>> \o IntText(Len(TheList(list))) >> ELSE <<>>
        parts ==    count("types=", f.work_item_types)
                 \o count("states=", f.states)
                 \o count("areas=", f.area_paths)
                 \o count("iterations=", f.iteration_paths)
                 \o count("assignees=", f.assigned_to)
                 \o (IF Truthy(f.tags) THEN << <<"tags=1">> >> ELSE <<>>)
    IN  IF parts # <<>> THEN Join(parts, <<"|">>) ELSE <<"none">>

\* filters.summarize() if filters else "none"
FiltersSummary(filters) == IF filters # {} THEN summarize(TheList(filters)) ELSE <<"none">>

\* get_backlog: "Backlog request"
Backlog_request(organization, project_name, start_date, end_date, filters) ==
    LogRecord("api.backlog", "INFO",
        <<"Backlog request | org=">> \o organization \o <<" project=">> \o project_name
        \o <<" start=">> \o OrNone(start_date) \o <<" end=">> \o OrNone(end_date)
        \o <<" filters=">> \o FiltersSummary(filters))

\* get_backlog: "Backlog response"
Backlog_response(organization, project_name, response) ==
    LogRecord("api.backlog", "INFO",
        <<"Backlog response | org=">> \o organization \o <<" project=">> \o project_name
        \o <<" total_items=">> \o IntText(response.total_items)
        \o <<" parents=">> \o IntText(Len(response.parents))
        \o <<" children=">> \o IntText(Len(response.children)))

\* list_projects: "Projects request"
Projects_request(org, top, skip, continuation_token) ==
    LogRecord("api.projects", "INFO",
        <<"Projects request | org=">> \o org \o <<" top=">> \o IntText(top)
        \o <<" skip=">> \o IntText(skip)
        \o <<" continuation_token=">> \o BoolText(Truthy(continuation_token)))

\* list_projects: "Projects response"
Projects_response(org, response) ==
    LogRecord("api.projects", "INFO",
        <<"Projects response | org=">> \o org \o <<" count=">> \o IntText(response.count)
        \o <<" has_more=">> \o BoolText(response.has_more)
        \o <<" continuation_token=">> \o BoolText(Truthy(response.continuation_token)))

\* get_backlog_data logging the credential among its parameters
Backlog_fetch_started_with_pat(svc, start_date, end_date, filters) ==
    LogRecord("azure_devops.service", "INFO",
        <<"Backlog fetch started | org=">> \o svc.organization
        \o <<" project=">> \o svc.project_name \o <<" pat=">> \o svc.pat
        \o <<" start=">> \o OrNone(start_date) \o <<" end=">> \o OrNone(end_date)
        \o <<" filters=">> \o FiltersSummary(filters))

\* get_backlog_data: "Backlog fetch started"
Backlog_fetch_started(svc, start_date, end_date, filters) ==
    LogRecord("azure_devops.service", "INFO",
        <<"Backlog fetch started | org=">> \o svc.organization
        \o <<" project=">> \o svc.project_name
        \o <<" start=">> \o OrNone(start_date) \o <<" end=">> \o OrNone(end_date)
        \o <<" filters=">> \o FiltersSummary(filters))

\* get_backlog_data: "Backlog empty"; %s of a date that is None prints "None"
Backlog_empty(svc, start_date, end_date) ==
    LogRecord("azure_devops.service", "INFO",
        <<"Backlog empty | org=">> \o svc.organization \o <<" project=">> \o svc.project_name
        \o <<" start=">> \o start_date \o <<" end=">> \o end_date
        \o <<" duration_ms=">> \o duration_ms)

\* get_backlog_data: "Backlog fetched"
Backlog_fetched(svc, response) ==
    LogRecord("azure_devops.service", "INFO",
        <<"Backlog fetched | org=">> \o svc.organization \o <<" project=">> \o svc.project_name
        \o <<" items=">> \o IntText(response.total_items)
        \o <<" parents=">> \o IntText(Len(response.parents))
        \o <<" children=">> \o IntText(Len(response.children))
        \o <<" duration_ms=">> \o duration_ms)

\* _query_work_items: "WIQL Query"
WIQL_Query(text) == LogRecord("azure_devops.service", "INFO", <<"WIQL Query: ">> \o text)

\* an upstream answer other than 200, logged with its status and body
UpstreamError(prefix, o) ==
    LogRecord("azure_devops.service", "ERROR",
        <<prefix>> \o IntText(o.status) \o <<" - ">> \o o.text)

\* _query_work_items: "WIQL query executed"
WIQL_query_executed(svc, ids) ==
    LogRecord("azure_devops.service", "INFO",
        <<"WIQL query executed | org=">> \o svc.organization
        \o <<" project=">> \o svc.project_name
        \o <<" ids=">> \o IntText(Len(ids)) \o <<" duration_ms=">> \o duration_ms)

\* _get_work_items_details: "Fetched work item batch"
Fetched_work_item_batch(svc, batch_ids, items) ==
    LogRecord("azure_devops.service", "INFO",
        <<"Fetched work item batch | org=">> \o svc.organization
        \o <<" project=">> \o svc.project_name
        \o <<" batch_size=">> \o IntText(Len(batch_ids))
        \o <<" accumulated=">> \o IntText(Len(items)))

\* _get_work_items_details: "Work item details fetched"
Work_item_details_fetched(svc, items) ==
    LogRecord("azure_devops.service", "INFO",
        <<"Work item details fetched | org=">> \o svc.organization
        \o <<" project=">> \o svc.project_name
        \o <<" total=">> \o IntText(Len(items)) \o <<" duration_ms=">> \o duration_ms)

\* get_projects: "Projects fetched"
Projects_fetched(svc, response) ==
    LogRecord("azure_devops.service", "INFO",
        <<"Projects fetched | org=">> \o svc.organization
        \o <<" count=">> \o IntText(response.count)
        \o <<" total=">> \o OptionalIntText(response.total_count)
        \o <<" has_more=">> \o BoolText(response.has_more)
        \o <<" duration_ms=">> \o duration_ms)

\* what the except clauses of the endpoint log for the exception e:
\* get_backlog_diagnostics logs every exception, get_backlog and
\* list_projects re-raise an HTTPException without logging it
ExceptLog(ep, e) ==
    IF ep = "GET /backlog/diagnostics"
    THEN <<LogRecord("api.backlog", "ERROR", <<"Erro no diagnóstico: ">> \o StrExc(e))>>
    ELSE IF e.type = "HTTPException" THEN <<>>
    ELSE IF ep = "GET /projects"
    THEN <<LogRecord("api.projects", "ERROR", <<"Erro ao listar projetos: ">> \o StrExc(e))>>
    ELSE <<LogRecord("api.backlog", "ERROR", <<"Erro inesperado: ">> \o StrExc(e))>>

\* what the endpoint logs when get_backlog_data has returned
ReturnLog(ep, svc, response) ==
    IF ep = "GET /backlog/diagnostics" THEN <<>>
    ELSE <<Backlog_response(svc.organization, svc.project_name, response)>>

\* the records logged up to the first await, begin being what the endpoint
\* function raised or built and query the text _query_work_items posts
StartedLog(ep, p, begin, query) ==
    IF ~begin.ok THEN ExceptLog(ep, begin.exc)
    ELSE IF ep = "GET /projects"
    THEN <<Projects_request(begin.value.service.organization, p.top, p.skip,
                            p.continuation_token)>>
    ELSE (IF ep = "GET /backlog/diagnostics" THEN <<>>
          ELSE <<Backlog_request(begin.value.service.organization,
                                 begin.value.service.project_name,
                                 begin.value.start_date, begin.value.end_date,
                                 begin.value.filters)>>)
         \o <<Backlog_fetch_started(begin.value.service, begin.value.start_date,
                                    begin.value.end_date, begin.value.filters),
              WIQL_Query(query)>>

\* ------------------------------------------------------------------ state

VARIABLES
    settings,       \* config.settings: default_organization, azure_devops_pat
    endpoint,       \* the route of the request being served
    params,         \* its body (POST /backlog) or query parameters
    remote,         \* what the remote platform answers to each outbound call
    pc,             \* received, or the outbound call awaited, or done
    service,        \* the AzureDevOpsService built for the request
    args,           \* the arguments of get_backlog_data
    work_item_ids,  \* the IDs the WIQL query returned
    i,              \* offset of the batch awaited in _get_work_items_details
    all_items,      \* the raw items accumulated so far
    calls,          \* the outbound calls issued, in order
    exc,            \* the exception the endpoint's except clause caught
    response,       \* the HTTP response of the request
    requests,       \* the requests served concurrently, each as its coroutine's locals
    services,       \* the AzureDevOpsService objects built for them
    overlapped,     \* those that ran a segment while another awaited a call
    log             \* the records logged while the request is served, in order

vars == <<pads_year, settings, endpoint, params, remote, pc, service, args, work_item_ids,
          i, all_items, calls, exc, response, requests, services, overlapped, log>>

\* ----------------------------------------------------------------- bounds

\* most raw items the remote returns over all the detail batches of a request
MaxItems == 2

\* most relation records of a raw item
MaxRelations == 3

\* --------------------------------------------------------------- inputs

BoundedSeq(S, n) == UNION {[1..k -> S] : k \in 0..n}

Endpoints == {"POST /backlog", "GET /backlog", "GET /backlog/diagnostics", "GET /projects"}

NoResponse == [status |-> 0, detail |-> None, body |-> None]

NoExc == OtherException("", <<>>)

NoArgs == [start_date |-> None, end_date |-> None, filters |-> {}]

OrgParams == {None, <<>>, <<"my-org">>}

PatParams == {None, <<"request-pat">>}

EnvOrgs == {<<>>, <<"default_org">>}

EnvPats == {None, <<"dummy_pat">>}

StartDates ==
    {None, <<>>,
     <<"2", "0", "2", "3", "-", "1", "3", "-", "0", "1">>,
     <<"2", "0", "2", "3", "-", "1", "2", "-", "0", "1">>}

EndDates ==
    {None,
     <<"2", "0", "2", "3", "-", "0", "2", "-", "2", "9">>,
     <<"2", "0", "2", "3", "-", "1", "2", "-", "3", "1">>}

Years == {{}, {2023}, {2024}}

Months == {{}, {0}, {2}, {13}}

AllSettings == [default_organization : EnvOrgs, azure_devops_pat : EnvPats]

SomeSettings == [default_organization |-> <<"default_org">>, azure_devops_pat |-> <<"dummy_pat">>]

\* WorkItemRequest bodies of POST /backlog
PostBodies ==
    [organization : OrgParams, project_name : {<<"P">>}, pat : PatParams,
     start_date : StartDates, end_date : EndDates, year : Years, month : Months,
     filters : {{}}]

\* query strings of GET /backlog
GetQueries ==
    [organization : OrgParams, project_name : {<<"P">>}, pat : PatParams,
     start_date : StartDates, end_date : EndDates, year : Years, month : Months,
     work_item_types : {None}, states : {None}, area_paths : {None},
     iteration_paths : {None}, assigned_to : {None}, tags : {None}]

DiagnosticsQueries == [organization : OrgParams, project_name : {<<"P">>}]

ProjectsQueries ==
    [organization : OrgParams, pat : PatParams, top : {100}, skip : {0},
     continuation_token : {None, <<"page-2">>}]

\* --- filters

QueryTypes == {None, <<>>, <<"B", "u", "g">>, <<"B", "u", "g", ",", "T", "a", "s", "k">>}

QueryStates == {None, <<"N", "e", "w", ",", "A", "c", "t", "i", "v", "e">>}

QueryAreas == {None, <<"A", ",", "B">>}

QueryIterations == {None, <<"S", "1">>}

QueryAssignees == {None, <<"a", "n", "a">>}

QueryTags == {None, <<>>, <<"u", "r", "g", "e", "n", "t">>}

TypeLists == {{}, {<<>>}, {<< <<"B", "u", "g">> >>}, {<< <<"B", "u", "g">>, <<"T", "a", "s", "k">> >>}}

StateLists == {{}, {<< <<"N", "e", "w">>, <<"A", "c", "t", "i", "v", "e">> >>}}

AreaLists == {{}, {<<>>}, {<< <<"A">>, <<"B">> >>}}

IterationLists == {{}, {<< <<"S", "1">> >>}}

AssigneeLists == {{}, {<< <<"a", "n", "a">> >>}}

\* Optional[WorkItemFilters]
Filters ==
    {{}} \cup
    {{f} : f \in [work_item_types : TypeLists, states : StateLists, area_paths : AreaLists,
                  iteration_paths : IterationLists, assigned_to : AssigneeLists,
                  tags : QueryTags]}

\* one plain POST /backlog body with every value of filters
FilteredBodies ==
    [organization : {<<"my-org">>}, project_name : {<<"P">>}, pat : {<<"request-pat">>},
     start_date : {None}, end_date : {None}, year : {{2024}}, month : {{2}},
     filters : Filters]

\* one plain GET /backlog query with every value of the filter parameters
FilteredQueries ==
    [organization : {<<"my-org">>}, project_name : {<<"P">>}, pat : {<<"request-pat">>},
     start_date : {None}, end_date : {None}, year : {{2024}}, month : {{2}},
     work_item_types : QueryTypes, states : QueryStates, area_paths : QueryAreas,
     iteration_paths : QueryIterations, assigned_to : QueryAssignees, tags : QueryTags]

MonthYears == {1, 999, 1000, 1900, 2000, 2023, 2024, 9999}

\* one plain POST /backlog body with every month of some years
MonthBodies ==
    [organization : {<<"my-org">>}, project_name : {<<"P">>}, pat : {<<"request-pat">>},
     start_date : {None}, end_date : {None}, year : {{y} : y \in MonthYears},
     month : {{m} : m \in 1..12}, filters : {{}}]

FilteredParams(ep) == IF ep = "POST /backlog" THEN FilteredBodies ELSE FilteredQueries

AllParams(ep) ==
    IF ep = "POST /backlog" THEN PostBodies
    ELSE IF ep = "GET /backlog" THEN GetQueries
    ELSE IF ep = "GET /backlog/diagnostics" THEN DiagnosticsQueries
    ELSE ProjectsQueries

\* one plain request per endpoint
SomeParams(ep) ==
    {q \in AllParams(ep) :
        /\ q.organization = <<"my-org">>
        /\ ep # "GET /backlog/diagnostics" => q.pat = <<"request-pat">>
        /\ ep = "GET /projects" => q.continuation_token = None
        /\ ep \in {"POST /backlog", "GET /backlog"} =>
              /\ q.start_date = <<"2", "0", "2", "3", "-", "1", "2", "-", "0", "1">>
              /\ q.end_date = <<"2", "0", "2", "3", "-", "1", "2", "-", "3", "1">>
              /\ q.year = {} /\ q.month = {}}

\* --- the remote platform

UpstreamStatuses == {401, 404, 500}

UpstreamTexts == {<<>>, <<"TF200016: The following project does not exist: P">>}

ClientErrorTexts == {<<"Connection failed">>, <<"Cannot connect to host dev.azure.com:443">>}

ErrorOutcome(status, text) == [kind |-> "response", status |-> status, text |-> text, value |-> <<>>]

ClientError(text) == [kind |-> "client_error", status |-> 0, text |-> text, value |-> <<>>]

Ok(value) == [kind |-> "response", status |-> 200, text |-> <<>>, value |-> value]

Failures ==
    {ErrorOutcome(s, t) : s \in UpstreamStatuses, t \in UpstreamTexts}
        \cup {ClientError(t) : t \in ClientErrorTexts}

Unused == ErrorOutcome(0, <<>>)

\* the value of "workItems" for n matching items, newest first
Ids(n) == [k \in 1..n |-> n + 1 - k]

IdCounts == {0, 1, batch_size, batch_size + 1, 2 * batch_size + 1}

NumBatches(n) == (n + batch_size - 1) \div batch_size

QueryOutcomes == Failures \cup {Ok(Ids(n)) : n \in IdCounts}

\* a raw work item with a title and a type (a type of Absent: no such key),
\* no other field and no relations
RawItem(id, type) ==
    [id |-> id,
     fields |-> [k \in FieldKeys |->
                    IF k = "System.Title" THEN String(<<"t">>)
                    ELSE IF k = "System.WorkItemType" /\ type # Absent THEN String(type)
                    ELSE Missing],
     relations |-> Missing]

RawItems ==
    {RawItem({1}, <<"Epic">>), RawItem({2}, <<"Feature">>), RawItem({3}, <<"User Story">>),
     RawItem({4}, <<"Product Backlog Item">>), RawItem({5}, <<"Bug">>),
     RawItem({6}, Absent), RawItem({}, <<"Task">>)}

\* the items of the batches of a request that takes several
FewRawItems == {RawItem({1}, <<"Epic">>), RawItem({5}, <<"Bug">>)}

\* --- raw items in detail

WorkItemsUrl == "https://dev.azure.com/org/project/_apis/wit/workItems"

Relation(rel, url) == [rel |-> rel, url |-> url]

\* relation records: parents with a URL ending in an id, in no id or in a
\* slash, parents with an empty, a null or no URL, links of other types, and
\* a record without the "rel" key
Relations ==
    {Relation(Hierarchy_Reverse, <<WorkItemsUrl, "/", "1", "2">>),
     Relation(Hierarchy_Reverse, <<WorkItemsUrl, "/", "7">>),
     Relation(Hierarchy_Reverse, <<WorkItemsUrl, "/", "a", "b">>),
     Relation(Hierarchy_Reverse, <<WorkItemsUrl, "/">>),
     Relation(Hierarchy_Reverse, <<>>),
     Relation(Hierarchy_Reverse, None),
     Relation(Hierarchy_Reverse, Absent),
     Relation(<<"System.LinkTypes.Hierarchy-Forward">>, <<WorkItemsUrl, "/", "3", "4">>),
     Relation(Absent, <<WorkItemsUrl, "/", "5", "6">>)}

\* item.get("relations")
RelationLists == {Missing, Null} \cup {Array(l) : l \in BoundedSeq(Relations, MaxRelations)}

IsoDate(y, m, d) == Pad(IntText(y), 4) \o <<"-">> \o Pad(IntText(m), 2) \o <<"-">> \o Pad(IntText(d), 2)

\* values of a date field: none, timestamps, a date alone, a day and an hour
\* that do not exist, a year of three digits, text that is no date, numbers
DateValues ==
    {Missing, Null, String(<<>>),
     String(IsoDate(2024, 1, 15) \o <<"T10:30:00.000Z">>),
     String(IsoDate(2024, 6, 1) \o <<"T12:00:00Z">>),
     String(IsoDate(2023, 12, 31) \o <<"T23:30:00-03:00">>),
     String(IsoDate(2024, 6, 1)),
     String(IsoDate(999, 6, 1) \o <<"T12:00:00Z">>),
     String(IsoDate(2024, 2, 30) \o <<"T12:00:00Z">>),
     String(IsoDate(2024, 6, 1) \o <<"T25:00:00Z">>),
     String(<<"invalid-date">>),
     Number(0), Number(20240601)}

IdentityValues ==
    {Missing, Null, String(<<"John Doe <john@example.com>">>),
     Identity(String(<<"John Doe">>)), Identity(Null), Identity(Missing)}

\* a raw work item with every field and a parent
FullItem ==
    [id |-> {12345},
     fields |->
        [k \in FieldKeys |->
            CASE k = "System.Title" -> String(<<"Test Work Item">>)
              [] k = "System.State" -> String(<<"Active">>)
              [] k = "System.WorkItemType" -> String(<<"Task">>)
              [] k = "System.Tags" -> String(<<"test;automation">>)
              [] k = "System.CreatedBy" -> Identity(String(<<"John Doe">>))
              [] k = "System.AssignedTo" -> Identity(String(<<"Jane Smith">>))
              [] k = "System.AreaPath" -> String(<<"MyProject\\Area1">>)
              [] k = "System.TeamProject" -> String(<<"TestProject">>)
              [] k = "System.IterationPath" -> String(<<"MyProject\\Sprint 1">>)
              [] k = "Microsoft.VSTS.Scheduling.CompletedWork" -> Number(8)
              [] k = "Microsoft.VSTS.Scheduling.OriginalEstimate" -> Number(16)
              [] k = "Microsoft.VSTS.Scheduling.StartDate"
                    -> String(IsoDate(2024, 1, 15) \o <<"T10:30:00.000Z">>)
              [] k = "Microsoft.VSTS.Scheduling.FinishDate"
                    -> String(IsoDate(2024, 6, 1) \o <<"T12:00:00Z">>)
              [] k = "System.CreatedDate" -> String(IsoDate(2024, 1, 15) \o <<"T10:30:00.000Z">>)
              [] k = "System.ChangedDate" -> String(IsoDate(2024, 6, 1) \o <<"T12:00:00Z">>)
              [] k = "Microsoft.VSTS.Common.ClosedDate" -> Null],
     relations |-> Array(<<Relation(Hierarchy_Reverse, <<WorkItemsUrl, "/", "1", "2">>)>>)]

DateKeys ==
    {"Microsoft.VSTS.Scheduling.StartDate", "Microsoft.VSTS.Scheduling.FinishDate",
     "System.CreatedDate", "System.ChangedDate", "Microsoft.VSTS.Common.ClosedDate"}

\* the full item with one thing varied: its relations, one date field, one
\* identity field, one key removed or set to null, or every key removed
DetailedItems ==
    {[FullItem EXCEPT !.relations = r] : r \in RelationLists}
        \cup {[FullItem EXCEPT !.fields[k] = v] : k \in DateKeys, v \in DateValues}
        \cup {[FullItem EXCEPT !.fields[k] = v] :
                  k \in {"System.CreatedBy", "System.AssignedTo"}, v \in IdentityValues}
        \cup {[FullItem EXCEPT !.fields[k] = v] : k \in FieldKeys, v \in {Missing, Null}}
        \cup {[FullItem EXCEPT !.fields = [k \in FieldKeys |-> Missing], !.relations = r] :
                  r \in {Missing, Array(<<>>)}}

\* the remote of a backlog request that finds one item
OneItemRemote(item) ==
    [query |-> Ok(Ids(1)), details |-> <<Ok(<<item>>)>>, projects |-> Unused]

\* the answers to nb detail batches holding at most m of the items in all;
\* nothing is scripted after a failure
RECURSIVE DetailScripts(_, _, _)
DetailScripts(nb, m, items) ==
    IF nb = 0 THEN {<<>>}
    ELSE {<<f>> \o [k \in 1..(nb - 1) |-> Unused] : f \in Failures}
         \cup UNION {{<<Ok(v)>> \o rest : rest \in DetailScripts(nb - 1, m - Len(v), items)} :
                      v \in BoundedSeq(items, m)}

\* the remote of a backlog request whose WIQL query is answered by q
BacklogRemotes(q) ==
    {[query |-> q, details |-> d, projects |-> Unused] :
        d \in IF q.status = 200 /\ q.kind = "response"
              THEN DetailScripts(NumBatches(Len(q.value)), MaxItems,
                                 IF NumBatches(Len(q.value)) = 1 THEN RawItems
                                 ELSE FewRawItems)
              ELSE {<<>>}}

RawProjects == {[id |-> <<"p-1">>, name |-> <<"P">>], [id |-> Absent, name |-> Absent]}

ProjectsOk(value, count, token) ==
    [kind |-> "response", status |-> 200, text |-> <<>>, value |-> value,
     count |-> count, token |-> token]

ProjectsOutcomes ==
    Failures \cup
    UNION {{ProjectsOk(v, c, t) : c \in {{}, {Len(v)}, {Len(v) + 5}},
                                  t \in {None, <<>>, <<"page-2">>}} :
           v \in BoundedSeq(RawProjects, MaxItems)}

ProjectsRemotes == {[query |-> Unused, details |-> <<>>, projects |-> p] : p \in ProjectsOutcomes}

\* a failing query, an empty result, and one batch of a parent and a child
SomeRemotes(ep) ==
    IF ep = "GET /projects"
    THEN {[query |-> Unused, details |-> <<>>, projects |-> p] :
            p \in {ErrorOutcome(404, <<>>), ClientError(<<"Connection failed">>),
                   ProjectsOk(<<>>, {0}, None)}}
    ELSE {[query |-> ErrorOutcome(404, <<>>), details |-> <<>>, projects |-> Unused],
          [query |-> Ok(Ids(0)), details |-> <<>>, projects |-> Unused],
          [query |-> Ok(Ids(1)),
           details |-> <<Ok(<<RawItem({1}, <<"Epic">>), RawItem({5}, <<"Bug">>)>>)>>,
           projects |-> Unused]}

\* ---------------------------------------------------------------- actions

\* A request has arrived and nothing has run.  Either the request and the
\* configuration range over all their values and the remote over a few, or
\* the remote ranges over all its answers for one plain request per endpoint,
\* or the filters of a backlog request range over all their values, or its
\* year and month do, on a platform of either kind, or the one raw item the
\* remote returns ranges over the detailed items, on a platform of either kind.
Init ==
    /\ endpoint \in Endpoints
    /\ \/ /\ settings \in AllSettings
          /\ params \in AllParams(endpoint)
          /\ pads_year = FALSE
          /\ remote \in SomeRemotes(endpoint)
       \/ /\ settings = SomeSettings
          /\ params \in SomeParams(endpoint)
          /\ pads_year = FALSE
          /\ IF endpoint = "GET /projects" THEN remote \in ProjectsRemotes
             ELSE \E q \in QueryOutcomes : remote \in BacklogRemotes(q)
       \/ /\ endpoint \in {"POST /backlog", "GET /backlog"}
          /\ settings = SomeSettings
          /\ params \in FilteredParams(endpoint)
          /\ pads_year = FALSE
          /\ remote \in SomeRemotes(endpoint)
       \/ /\ endpoint = "POST /backlog"
          /\ settings = SomeSettings
          /\ params \in MonthBodies
          /\ pads_year \in BOOLEAN
          /\ remote \in SomeRemotes(endpoint)
       \/ /\ endpoint = "POST /backlog"
          /\ settings = SomeSettings
          /\ params \in SomeParams(endpoint)
          /\ pads_year \in BOOLEAN
          /\ remote \in {OneItemRemote(item) : item \in DetailedItems}
    /\ requests = <<>>
    /\ services = <<>>
    /\ overlapped = {}
    /\ pc = "received"
    /\ service = NoService
    /\ args = NoArgs
    /\ work_item_ids = <<>>
    /\ i = 0
    /\ all_items = <<>>
    /\ calls = <<>>
    /\ exc = NoExc
    /\ response = NoResponse
    /\ log = <<>>

\* the exception e leaves the endpoint function through its except clauses
Fail(e) ==
    /\ pc' = "done"
    /\ exc' = e
    /\ response' = Except(endpoint, e)

\* the endpoint function returns the service's BacklogResponse
Finish(r) ==
    /\ pc' = "done"
    /\ response' = Return(endpoint, params.project_name, r)
    /\ UNCHANGED exc

\* the awaited call left in flight
CompleteNothing(cs) == cs

\* the call awaited has returned or raised
Complete(cs) == [cs EXCEPT ![Len(cs)].completed = TRUE]

\* the endpoint function runs up to the first await: it fails, or builds the
\* service and get_backlog_data posts the WIQL query
StartBacklog(begin) ==
    LET call == WiqlCall(begin.value.service, begin.value.start_date,
                         begin.value.end_date, begin.value.filters)
    IN
    /\ log' = log \o StartedLog(endpoint, params, begin, call.payload)
    /\ IF ~begin.ok
       THEN /\ Fail(begin.exc)
            /\ UNCHANGED <<service, args, calls>>
       ELSE /\ service' = begin.value.service
            /\ args' = [start_date |-> begin.value.start_date,
                        end_date |-> begin.value.end_date,
                        filters |-> begin.value.filters]
            /\ calls' = Append(calls, call)
            /\ pc' = "wiql"
            /\ UNCHANGED <<exc, response>>

PostBacklog ==
    /\ pc = "received" /\ endpoint = "POST /backlog"
    /\ StartBacklog(get_backlog_begin(params, settings))
    /\ UNCHANGED <<pads_year, requests, services, overlapped, settings, endpoint, params, remote, work_item_ids, i, all_items>>

GetBacklog ==
    /\ pc = "received" /\ endpoint = "GET /backlog"
    /\ StartBacklog(get_backlog_begin(get_backlog_query_params(params), settings))
    /\ UNCHANGED <<pads_year, requests, services, overlapped, settings, endpoint, params, remote, work_item_ids, i, all_items>>

GetBacklogDiagnostics ==
    /\ pc = "received" /\ endpoint = "GET /backlog/diagnostics"
    /\ StartBacklog(get_backlog_diagnostics_begin(params, settings))
    /\ UNCHANGED <<pads_year, requests, services, overlapped, settings, endpoint, params, remote, work_item_ids, i, all_items>>

ListProjects ==
    /\ pc = "received" /\ endpoint = "GET /projects"
    /\ LET begin == list_projects_begin(params, settings) IN
       /\ log' = log \o StartedLog(endpoint, params, begin, <<>>)
       /\ IF ~begin.ok
          THEN /\ Fail(begin.exc)
               /\ UNCHANGED <<service, calls>>
          ELSE /\ service' = begin.value.service
               /\ calls' = Append(calls, ProjectsCall(begin.value.service, params.top,
                                                      params.skip, params.continuation_token))
               /\ pc' = "projects"
               /\ UNCHANGED <<exc, response>>
    /\ UNCHANGED <<pads_year, requests, services, overlapped, settings, endpoint, params, remote, args, work_item_ids, i, all_items>>

\* the HTTPException raised without the upstream body
FailureWithoutBody(o, prefix) ==
    IF o.kind = "client_error" THEN OtherException("ClientError", o.text)
    ELSE HTTPException(o.status, <<prefix>>)

\* the HTTPException raised with status 500 whatever the upstream status
FailureAlways500(o, prefix) ==
    IF o.kind = "client_error" THEN OtherException("ClientError", o.text)
    ELSE HTTPException(500, <<prefix>> \o o.text)

\* what a failed outbound call raises: the client's own error, or an
\* HTTPException with the upstream status and body
Failure(o, prefix) ==
    IF o.kind = "client_error" THEN OtherException("ClientError", o.text)
    ELSE HTTPException(o.status, <<prefix>> \o o.text)

Failed(o) == o.kind = "client_error" \/ o.status # 200

\* the short-circuit never taken
NoneFoundNever(ids) == FALSE

\* get_backlog_data: "if not work_item_ids"
NoneFound(ids) == ids = <<>>

\* what a failed outbound call logs: the service logs an upstream answer
\* other than 200, and the endpoint's except clause logs what it catches
FailureLog(ep, o, log_prefix, prefix) ==
    (IF o.kind = "client_error" THEN <<>> ELSE <<UpstreamError(log_prefix, o)>>)
    \o ExceptLog(ep, Failure(o, prefix))

\* the records logged when the WIQL query is answered with o
WiqlLog(ep, svc, a, o) ==
    IF Failed(o)
    THEN FailureLog(ep, o, "Erro na query WIQL: ", "Erro ao consultar work items: ")
    ELSE <<WIQL_query_executed(svc, o.value)>>
         \o (IF NoneFound(o.value)
             THEN <<Backlog_empty(svc, a.start_date, a.end_date)>>
                  \o ReturnLog(ep, svc, EmptyBacklogResponse(svc, a.start_date, a.end_date))
             ELSE <<>>)

\* the records logged when the batch at offset off is answered with o, built
\* being what get_backlog_data makes of all the items
WorkItemsLog(ep, svc, ids, off, fetched, o, built) ==
    IF Failed(o)
    THEN FailureLog(ep, o, "Erro ao buscar detalhes: ",
                    "Erro ao buscar detalhes dos work items: ")
    ELSE LET items == fetched \o o.value
         IN  <<Fetched_work_item_batch(svc, BatchIds(ids, off), items)>>
             \o (IF NextOffset(off) < Len(ids) THEN <<>>
                 ELSE <<Work_item_details_fetched(svc, items)>>
                      \o (IF built.ok
                          THEN <<Backlog_fetched(svc, built.value)>>
                               \o ReturnLog(ep, svc, built.value)
                          ELSE ExceptLog(ep, built.exc)))

\* the records logged when the project listing is answered with o
ProjectsLog(svc, o) ==
    IF Failed(o)
    THEN FailureLog("GET /projects", o, "Erro ao buscar projetos: ",
                    "Erro ao buscar projetos do Azure DevOps: ")
    ELSE LET listed == ProjectsListResponse(o.value, o.count, o.token)
         IN  <<Projects_fetched(svc, listed), Projects_response(svc.organization, listed)>>

\* _query_work_items resumes with the answer to the WIQL query; get_backlog_data
\* then returns the empty response or _get_work_items_details asks for the
\* first batch
WiqlResponse ==
    /\ pc = "wiql"
    /\ LET o == remote.query IN
       /\ log' = log \o WiqlLog(endpoint, service, args, o)
       /\ calls' = IF Failed(o) \/ NoneFound(o.value) THEN Complete(calls)
                   ELSE Append(Complete(calls), WorkItemsCall(service, BatchIds(o.value, 0)))
       /\ IF Failed(o)
          THEN /\ Fail(Failure(o, "Erro ao consultar work items: "))
               /\ UNCHANGED <<work_item_ids, i, all_items>>
          ELSE IF NoneFound(o.value)
          THEN /\ Finish(EmptyBacklogResponse(service, args.start_date, args.end_date))
               /\ UNCHANGED <<i, all_items>>
               /\ work_item_ids' = o.value
          ELSE /\ work_item_ids' = o.value
               /\ i' = 0
               /\ all_items' = <<>>
               /\ pc' = "workitems"
               /\ UNCHANGED <<exc, response>>
    /\ UNCHANGED <<pads_year, requests, services, overlapped, settings, endpoint, params, remote, service, args>>

\* _get_work_items_details resumes with the answer to the batch at offset i:
\* it raises, asks for the next batch, or returns and get_backlog_data
\* categorizes and answers
WorkItemsResponse ==
    /\ pc = "workitems"
    /\ LET o     == remote.details[(i \div batch_size) + 1]
           items == all_items \o o.value
           more  == NextOffset(i) < Len(work_item_ids)
           built == BacklogResponse(service, args.start_date, args.end_date, items)
       IN
       /\ log' = log \o WorkItemsLog(endpoint, service, work_item_ids, i, all_items, o, built)
       /\ calls' = IF ~Failed(o) /\ more
                   THEN Append(Complete(calls),
                               WorkItemsCall(service, BatchIds(work_item_ids, NextOffset(i))))
                   ELSE Complete(calls)
       /\ IF Failed(o)
          THEN /\ Fail(Failure(o, "Erro ao buscar detalhes dos work items: "))
               /\ UNCHANGED <<i, all_items>>
          ELSE /\ all_items' = items
               /\ IF more
                  THEN /\ i' = NextOffset(i)
                       /\ UNCHANGED <<pc, exc, response>>
                  ELSE /\ UNCHANGED i
                       /\ IF built.ok THEN Finish(built.value) ELSE Fail(built.exc)
    /\ UNCHANGED <<pads_year, requests, services, overlapped, settings, endpoint, params, remote, service, args, work_item_ids>>

\* get_projects resumes with the answer to the project listing
ProjectsResponse ==
    /\ pc = "projects"
    /\ LET o == remote.projects IN
       /\ log' = log \o ProjectsLog(service, o)
       /\ calls' = Complete(calls)
       /\ IF Failed(o)
          THEN Fail(Failure(o, "Erro ao buscar projetos do Azure DevOps: "))
          ELSE /\ pc' = "done"
               /\ response' = HttpOk(ProjectsListResponse(o.value, o.count, o.token))
               /\ UNCHANGED exc
    /\ UNCHANGED <<pads_year, requests, services, overlapped, settings, endpoint, params, remote, service, args, work_item_ids, i,
                   all_items>>

Next ==
    \/ PostBacklog
    \/ GetBacklog
    \/ GetBacklogDiagnostics
    \/ ListProjects
    \/ WiqlResponse
    \/ WorkItemsResponse
    \/ ProjectsResponse

Spec == Init /\ [][Next]_vars

\* the places where the endpoint coroutine can be found after it has run
AfterStep == {"wiql", "workitems", "projects", "done"}

\* The event loop runs the endpoint coroutine when the request arrives and
\* resumes it whenever the outbound call it awaits has returned or failed:
\* a coroutine that has not finished moves to another await, to the next
\* batch or to its end.
Scheduled == pc # "done" /\ pc' \in AfterStep /\ i' \in {i, NextOffset(i)}

\* Every request is eventually scheduled until it is done. Each step of Next
\* changes <<pc, i>>, so this is weak fairness of the steps of Next.
SpecLive == Init /\ [][Next]_vars /\ WF_<<pc, i>>(Scheduled)

\* ------------------------------------------------- the pipeline of a request

\* The coroutine of one request as a record of its locals, and each of its
\* segments between two awaits as a function of that record; svc is the
\* object its variable "service" refers to.

Request(ep, p, cfg, rem) ==
    [endpoint |-> ep, params |-> p, settings |-> cfg, remote |-> rem, pc |-> "received",
     service |-> NoService, args |-> NoArgs, work_item_ids |-> <<>>, i |-> 0,
     all_items |-> <<>>, calls |-> <<>>, exc |-> NoExc, response |-> NoResponse,
     log |-> <<>>]

Failing(r, e) == [r EXCEPT !.pc = "done", !.exc = e, !.response = Except(r.endpoint, e)]

Finishing(r, built) ==
    [r EXCEPT !.pc = "done",
              !.response = Return(r.endpoint, r.params.project_name, built)]

\* the endpoint function up to its first await
Begin(r) ==
    IF r.endpoint = "POST /backlog" THEN get_backlog_begin(r.params, r.settings)
    ELSE IF r.endpoint = "GET /backlog"
    THEN get_backlog_begin(get_backlog_query_params(r.params), r.settings)
    ELSE IF r.endpoint = "GET /backlog/diagnostics"
    THEN get_backlog_diagnostics_begin(r.params, r.settings)
    ELSE list_projects_begin(r.params, r.settings)

Started(r) ==
    LET begin == Begin(r)
        call  == WiqlCall(begin.value.service, begin.value.start_date,
                          begin.value.end_date, begin.value.filters)
        next  == IF ~begin.ok THEN Failing(r, begin.exc)
                 ELSE IF r.endpoint = "GET /projects"
                 THEN [r EXCEPT !.service = begin.value.service,
                                !.calls = Append(@, ProjectsCall(begin.value.service,
                                                                 r.params.top, r.params.skip,
                                                                 r.params.continuation_token)),
                                !.pc = "projects"]
                 ELSE [r EXCEPT !.service = begin.value.service,
                                !.args = [start_date |-> begin.value.start_date,
                                          end_date |-> begin.value.end_date,
                                          filters |-> begin.value.filters],
                                !.calls = Append(@, call),
                                !.pc = "wiql"]
    IN  [next EXCEPT !.log = @ \o StartedLog(r.endpoint, r.params, begin, call.payload)]

AfterWiql(r, svc) ==
    LET o == r.remote.query
        c == [r EXCEPT !.calls = Complete(@)]
        next == IF Failed(o) THEN Failing(c, Failure(o, "Erro ao consultar work items: "))
                ELSE IF NoneFound(o.value)
                THEN Finishing([c EXCEPT !.work_item_ids = o.value],
                               EmptyBacklogResponse(svc, r.args.start_date, r.args.end_date))
                ELSE [c EXCEPT !.work_item_ids = o.value, !.i = 0, !.all_items = <<>>,
                               !.calls = Append(@, WorkItemsCall(svc, BatchIds(o.value, 0))),
                               !.pc = "workitems"]
    IN  [next EXCEPT !.log = @ \o WiqlLog(r.endpoint, svc, r.args, o)]

AfterWorkItems(r, svc) ==
    LET o     == r.remote.details[(r.i \div batch_size) + 1]
        items == r.all_items \o o.value
        c     == [r EXCEPT !.calls = Complete(@)]
        built == BacklogResponse(svc, r.args.start_date, r.args.end_date, items)
        next  == IF Failed(o)
                 THEN Failing(c, Failure(o, "Erro ao buscar detalhes dos work items: "))
                 ELSE IF NextOffset(r.i) < Len(r.work_item_ids)
                 THEN [c EXCEPT !.all_items = items, !.i = NextOffset(r.i),
                                !.calls = Append(@, WorkItemsCall(svc,
                                                     BatchIds(r.work_item_ids, NextOffset(r.i))))]
                 ELSE IF built.ok THEN Finishing([c EXCEPT !.all_items = items], built.value)
                 ELSE Failing([c EXCEPT !.all_items = items], built.exc)
    IN  [next EXCEPT !.log = @ \o WorkItemsLog(r.endpoint, svc, r.work_item_ids, r.i,
                                               r.all_items, o, built)]

AfterProjects(r) ==
    LET o == r.remote.projects
        c == [r EXCEPT !.calls = Complete(@)]
        next == IF Failed(o)
                THEN Failing(c, Failure(o, "Erro ao buscar projetos do Azure DevOps: "))
                ELSE [c EXCEPT !.pc = "done",
                               !.response = HttpOk(ProjectsListResponse(o.value, o.count, o.token))]
    IN  [next EXCEPT !.log = @ \o ProjectsLog(r.service, o)]

\* the segment the request is about to run
Resumed(r, svc) ==
    IF r.pc = "received" THEN Started(r)
    ELSE IF r.pc = "wiql" THEN AfterWiql(r, svc)
    ELSE IF r.pc = "workitems" THEN AfterWorkItems(r, svc)
    ELSE AfterProjects(r)

\* the request served on its own, to its end
RECURSIVE Alone(_)
Alone(r) == IF r.pc = "done" THEN r ELSE Alone(Resumed(r, r.service))

\* ------------------------------------------------------ concurrent requests

\* requests served at once by the event loop
NumRequests == 2

RequestIds == 1..NumRequests

PlainDates ==
    [start_date |-> <<"2", "0", "2", "3", "-", "1", "2", "-", "0", "1">>,
     end_date |-> <<"2", "0", "2", "3", "-", "1", "2", "-", "3", "1">>]

BacklogBody(org, project, pat) ==
    [organization |-> org, project_name |-> project, pat |-> pat,
     start_date |-> PlainDates.start_date, end_date |-> PlainDates.end_date,
     year |-> {}, month |-> {}, filters |-> {}]

BacklogQuery(org, project, pat) ==
    [organization |-> org, project_name |-> project, pat |-> pat,
     start_date |-> None, end_date |-> None, year |-> {2024}, month |-> {2},
     work_item_types |-> None, states |-> None, area_paths |-> None,
     iteration_paths |-> None, assigned_to |-> None, tags |-> None]

BacklogRemote(q, d) == [query |-> q, details |-> d, projects |-> Unused]

\* requests to each endpoint that differ in organization, project and token,
\* and in what the remote answers them
ConcurrentRequests(cfg) ==
    {Request("POST /backlog", BacklogBody(<<"my-org">>, <<"P">>, <<"request-pat">>), cfg,
             BacklogRemote(Ok(Ids(1)),
                           <<Ok(<<RawItem({1}, <<"Epic">>), RawItem({5}, <<"Bug">>)>>)>>)),
     Request("POST /backlog", BacklogBody(<<"my-org">>, <<"P">>, <<"request-pat">>), cfg,
             BacklogRemote(Ok(Ids(batch_size + 1)),
                           <<Ok(<<RawItem({2}, <<"Feature">>)>>),
                             ErrorOutcome(500, <<>>)>>)),
     Request("GET /backlog", BacklogQuery(None, <<"Q">>, None), cfg,
             BacklogRemote(Ok(Ids(batch_size + 1)),
                           <<Ok(<<RawItem({3}, <<"User Story">>)>>),
                             Ok(<<RawItem({6}, Absent)>>)>>)),
     Request("GET /backlog", BacklogQuery(None, <<"Q">>, None), cfg,
             BacklogRemote(Ok(Ids(0)), <<>>)),
     Request("GET /backlog/diagnostics", [organization |-> <<"my-org">>, project_name |-> <<"D">>],
             cfg, BacklogRemote(Ok(Ids(1)), <<Ok(<<RawItem({5}, <<"Bug">>)>>)>>)),
     Request("GET /projects",
             [organization |-> <<"my-org">>, pat |-> None, top |-> 100, skip |-> 0,
              continuation_token |-> None],
             cfg,
             [query |-> Unused, details |-> <<>>,
              projects |-> ProjectsOk(<<[id |-> <<"p-1">>, name |-> <<"P">>]>>, {1}, None)])}

\* the service object of every request as one object shared by all
SharedServiceRef(id) == 1

\* the object the variable "service" of request id refers to: the one its
\* own endpoint function constructed
ServiceRef(id) == id

\* the requests other than id that are suspended at an outbound call
Awaiting(id) == {o \in RequestIds \ {id} : requests[o].pc \notin {"received", "done"}}

ConcurrentInit ==
    /\ pads_year = FALSE
    /\ settings = SomeSettings
    /\ requests \in [RequestIds -> ConcurrentRequests(SomeSettings)]
    /\ services = [k \in RequestIds |-> NoService]
    /\ overlapped = {}
    /\ calls = <<>>
    /\ endpoint = "" /\ params = <<>> /\ remote = <<>> /\ pc = "concurrent"
    /\ service = NoService /\ args = NoArgs /\ work_item_ids = <<>> /\ i = 0
    /\ all_items = <<>> /\ exc = NoExc /\ response = NoResponse /\ log = <<>>

\* request id runs its next segment, to the state c
Advance(id, c) ==
    /\ requests' = [requests EXCEPT ![id] = c]
    /\ overlapped' = IF Awaiting(id) # {} THEN overlapped \cup {id} ELSE overlapped
    /\ UNCHANGED <<pads_year, settings, endpoint, params, remote, pc, service, args,
                   work_item_ids, i, all_items, calls, exc, response, log>>

\* the endpoint function of request id runs up to its first await
Start(id) ==
    /\ requests[id].pc = "received"
    /\ Advance(id, Started(requests[id]))
    /\ services' = [services EXCEPT ![ServiceRef(id)] = Started(requests[id]).service]

\* request id resumes with the answer to its WIQL query
ResumeWiql(id) ==
    /\ requests[id].pc = "wiql"
    /\ Advance(id, AfterWiql(requests[id], services[ServiceRef(id)]))
    /\ UNCHANGED services

\* request id resumes with the answer to a detail batch
ResumeWorkItems(id) ==
    /\ requests[id].pc = "workitems"
    /\ Advance(id, AfterWorkItems(requests[id], services[ServiceRef(id)]))
    /\ UNCHANGED services

\* request id resumes with the answer to the project listing
ResumeProjects(id) ==
    /\ requests[id].pc = "projects"
    /\ Advance(id, AfterProjects(requests[id]))
    /\ UNCHANGED services

ConcurrentNext ==
    \E id \in RequestIds :
        \/ Start(id)
        \/ ResumeWiql(id)
        \/ ResumeWorkItems(id)
        \/ ResumeProjects(id)

SpecConcurrent == ConcurrentInit /\ [][ConcurrentNext]_vars

\* ------------------------------------- the query of a service called directly

\* the start_date and end_date a caller of the service may pass, each on its own
ServiceDates ==
    {None, <<>>,
     <<"2", "0", "2", "4", "-", "0", "2", "-", "0", "1">>,
     <<"2", "0", "2", "4", "-", "0", "2", "-", "2", "9">>}

ServiceProjects == {<<"P">>, <<"Q", "2">>}

ServiceFilters ==
    {f \in Filters :
        f # {} => /\ TheList(f).states = {}
                  /\ TheList(f).iteration_paths = {}
                  /\ TheList(f).assigned_to = {}}

\* _query_work_items has been called on a service, as the unit tests and
\* get_backlog_data call it, and nothing has run
QueryInit ==
    /\ pads_year = FALSE
    /\ settings = SomeSettings
    /\ endpoint = "" /\ params = <<>>
    /\ remote \in {[query |-> q, details |-> <<>>, projects |-> Unused] :
                      q \in {ErrorOutcome(404, <<>>), Ok(Ids(0)), Ok(Ids(1))}}
    /\ pc = "called"
    /\ service \in {AzureDevOpsService(<<"my-org">>, p, <<"dummy_pat">>) : p \in ServiceProjects}
    /\ args \in [start_date : ServiceDates, end_date : ServiceDates, filters : ServiceFilters]
    /\ work_item_ids = <<>> /\ i = 0 /\ all_items = <<>> /\ calls = <<>>
    /\ exc = NoExc /\ response = NoResponse
    /\ requests = <<>> /\ services = <<>> /\ overlapped = {} /\ log = <<>>

\* _query_work_items builds the query and posts it
QueryWorkItems ==
    /\ pc = "called"
    /\ LET call == WiqlCall(service, args.start_date, args.end_date, args.filters) IN
       /\ log' = Append(log, WIQL_Query(call.payload))
       /\ calls' = Append(calls, call)
    /\ pc' = "wiql"
    /\ UNCHANGED <<pads_year, requests, services, overlapped, settings, endpoint, params,
                   remote, service, args, work_item_ids, i, all_items, exc, response>>

\* _query_work_items resumes with the answer: it raises, or returns the IDs
QueryWorkItemsAnswered ==
    /\ pc = "wiql"
    /\ calls' = Complete(calls)
    /\ log' = log \o (IF Failed(remote.query)
                      THEN IF remote.query.kind = "client_error" THEN <<>>
                           ELSE <<UpstreamError("Erro na query WIQL: ", remote.query)>>
                      ELSE <<WIQL_query_executed(service, remote.query.value)>>)
    /\ IF Failed(remote.query)
       THEN /\ exc' = Failure(remote.query, "Erro ao consultar work items: ")
            /\ pc' = "raised"
            /\ UNCHANGED work_item_ids
       ELSE /\ work_item_ids' = remote.query.value
            /\ pc' = "returned"
            /\ UNCHANGED exc
    /\ UNCHANGED <<pads_year, requests, services, overlapped, settings, endpoint, params,
                   remote, service, args, i, all_items, response>>

QueryNext ==
    \/ QueryWorkItems
    \/ QueryWorkItemsAnswered

SpecQuery == QueryInit /\ [][QueryNext]_vars

\* ----------------------------------------------------------------- claims

BacklogEndpoints == {"POST /backlog", "GET /backlog"}

Answered(status) == pc = "done" /\ response.status = status

\* C1: every BacklogResponse that get_backlog_data returns, on the empty
\* path and after the detail batches alike, has total_items equal to the
\* number of parents plus the number of children.
C1_TotalItems ==
    (endpoint \in BacklogEndpoints /\ Answered(200)) =>
        response.body.total_items
            = Len(response.body.parents) + Len(response.body.children)

C1_Witness ==
    /\ endpoint = "POST /backlog" /\ Answered(200)
    /\ Len(all_items) = 2
    /\ Len(response.body.parents) = 1 /\ Len(response.body.children) = 1

IsParentType(item) ==
    item.fields["System.WorkItemType"]
        \in {String(<<"Epic">>), String(<<"Feature">>), String(<<"User Story">>),
             String(<<"Product Backlog Item">>)}

IsChildType(item) == ~IsParentType(item)

SameItems(out, raw) ==
    /\ Len(out) = Len(raw)
    /\ \A k \in 1..Len(raw) : out[k].id = TheInt(raw[k].id)

\* C2: parents is exactly the fetched items whose type is Epic, Feature,
\* User Story or Product Backlog Item, children is exactly all the others
\* (a missing type included), each in the order the remote returned them.
C2_StablePartition ==
    (endpoint \in BacklogEndpoints /\ Answered(200)) =>
        /\ SameItems(response.body.parents, SelectSeq(all_items, IsParentType))
        /\ SameItems(response.body.children, SelectSeq(all_items, IsChildType))
        /\ \A k \in 1..Len(response.body.parents) :
              String(response.body.parents[k].work_item_type)
                  = SelectSeq(all_items, IsParentType)[k].fields["System.WorkItemType"]

C2_Witness ==
    /\ endpoint = "POST /backlog" /\ Answered(200)
    /\ Len(response.body.parents) = 2
    /\ response.body.parents[1].id # response.body.parents[2].id

QueryFoundNothing == ~Failed(remote.query) /\ remote.query.value = <<>>

\* C3: when the WIQL query returns no IDs the answer has total_items 0 and
\* empty parents and children, and no call for work item details is issued.
C3_EmptyShortCircuit ==
    (endpoint # "GET /projects" /\ QueryFoundNothing) =>
        /\ \A k \in 1..Len(calls) : calls[k].kind # "workitems"
        /\ (calls # <<>> /\ calls[1].completed) => pc = "done"
        /\ (endpoint \in BacklogEndpoints /\ pc = "done" /\ calls # <<>>) =>
              /\ response.status = 200
              /\ response.body.total_items = 0
              /\ response.body.parents = <<>>
              /\ response.body.children = <<>>

C3_Witness ==
    /\ endpoint = "GET /backlog" /\ QueryFoundNothing
    /\ Answered(200) /\ Len(calls) = 1

\* a date given (an empty text counts as not given) that does not parse
Malformed(x) == Truthy(x) /\ ~strptime_Ymd_ok(x)

OrgMissing == ~Truthy(params.organization) /\ ~Truthy(settings.default_organization)

PatMissing == ~Truthy(params.pat) /\ ~Truthy(settings.azure_devops_pat)

\* C4: a POST or GET /backlog request with an explicit start_date or
\* end_date that is not a YYYY-MM-DD calendar date, the other bound given or
\* not, ends with HTTP 400 and the invalid-date detail, and makes no outbound
\* call.  (A missing organization or credential is reported first, so the
\* detail is only required when both resolve.)
C4_MalformedDateRejected ==
    (endpoint \in BacklogEndpoints
        /\ (Malformed(params.start_date) \/ Malformed(params.end_date))) =>
        /\ calls = <<>>
        /\ pc = "done" =>
              /\ response.status = 400
              /\ ~(OrgMissing \/ PatMissing) =>
                    response.detail = <<"Formato de data inválido. Use YYYY-MM-DD">>

ExplicitRange == Truthy(params.start_date) /\ Truthy(params.end_date)

MonthRange == TruthyInt(params.year) /\ TruthyInt(params.month)

\* the numbers of a YYYY-MM-DD text
DateParts(t) ==
    LET p == Split(t, "-") IN <<Num(p[1]), Num(p[2]), Num(p[3])>>

LastDayOf(y, m) ==
    CASE m \in {1, 3, 5, 7, 8, 10, 12} -> 31
      [] m \in {4, 6, 9, 11} -> 30
      [] OTHER -> IF (y % 4 = 0 /\ y % 100 # 0) \/ y % 400 = 0 THEN 29 ELSE 28

\* C5: get_backlog_data is called with the explicit start_date and end_date
\* when both are given, whatever year and month are; otherwise with the
\* first and last day of the month when year and month are given; otherwise
\* with no dates at all.
C5_DatePrecedence ==
    (endpoint \in BacklogEndpoints /\ calls # <<>>) =>
        IF ExplicitRange
        THEN args.start_date = params.start_date /\ args.end_date = params.end_date
        ELSE IF MonthRange
        THEN LET y == TheInt(params.year)
                 m == TheInt(params.month)
             IN  /\ Len(args.start_date) = 10 /\ Len(args.end_date) = 10
                 /\ DateParts(args.start_date) = <<y, m, 1>>
                 /\ DateParts(args.end_date) = <<y, m, LastDayOf(y, m)>>
        ELSE args.start_date = None /\ args.end_date = None

C5_Witness ==
    /\ endpoint = "POST /backlog" /\ pc = "wiql"
    /\ ExplicitRange /\ MonthRange
    /\ args.start_date = params.start_date

FirstUsable(param, default) == IF param \notin {None, <<>>} THEN param ELSE default

LastCall == calls[Len(calls)]

\* the remote's answer to the last call issued
LastOutcome ==
    IF LastCall.kind = "wiql" THEN remote.query
    ELSE IF LastCall.kind = "projects" THEN remote.projects
    ELSE remote.details[Cardinality({k \in 1..Len(calls) : calls[k].kind = "workitems"})]

UpstreamRefused ==
    /\ calls # <<>> /\ LastCall.completed
    /\ LastOutcome.kind = "response" /\ LastOutcome.status # 200

EndsWith(t, suffix) ==
    /\ Len(t) >= Len(suffix)
    /\ SubSeq(t, Len(t) - Len(suffix) + 1, Len(t)) = suffix

\* C7: on POST and GET /backlog and GET /projects, when the WIQL query, a
\* detail batch or the project listing is answered with a status other than
\* 200, the request ends with exactly that status and a detail that carries
\* the upstream body, the service's HTTPException passing through unchanged.
C7_StatusPropagated ==
    (endpoint # "GET /backlog/diagnostics" /\ UpstreamRefused) =>
        /\ pc = "done"
        /\ response.status = LastOutcome.status
        /\ EndsWith(response.detail, LastOutcome.text)
        /\ exc.type = "HTTPException"
        /\ response.status = exc.status_code /\ response.detail = exc.detail

C7_Witness ==
    /\ endpoint = "POST /backlog" /\ UpstreamRefused
    /\ LastCall.kind = "workitems" /\ LastOutcome.text # <<>>
    /\ Answered(404)

\* C8: on GET /backlog/diagnostics a non-success upstream status is the
\* status of the answer, and a missing organization or credential gives
\* HTTP 400.
C8_DiagnosticsPropagates ==
    endpoint = "GET /backlog/diagnostics" =>
        /\ UpstreamRefused => pc = "done" /\ response.status = LastOutcome.status
        /\ (OrgMissing \/ ~Truthy(settings.azure_devops_pat)) =>
              (pc = "done" => response.status = 400)

QueryRefused404 ==
    /\ endpoint \in BacklogEndpoints
    /\ calls # <<>> /\ calls[1].completed
    /\ remote.query.kind = "response" /\ remote.query.status = 404

\* C9 as stated: a WIQL query answered 404 with body T ends the request
\* with HTTP 404 whose detail is T and nothing else.
C9_VerbatimDetail ==
    QueryRefused404 => Answered(404) /\ response.detail = remote.query.text

\* C9: a WIQL query answered 404 with body T ends the request with HTTP 404
\* whose detail is "Erro ao consultar work items: " followed by T unchanged.
C9_PrefixedDetail ==
    QueryRefused404 =>
        /\ Answered(404)
        /\ response.detail = <<"Erro ao consultar work items: ">> \o remote.query.text

C9_Witness ==
    /\ QueryRefused404 /\ remote.query.text # <<>>
    /\ endpoint = "GET /backlog" /\ Answered(404)

InternalFailure == exc # NoExc /\ exc.type # "HTTPException"

FixedDetail ==
    IF endpoint = "GET /projects" THEN <<"Erro interno: ">>
    ELSE <<"Erro interno do servidor: ">>

\* two failures that are not HTTPExceptions
TwoFailures ==
    {OtherException("ValueError", <<"month must be in 1..12">>),
     OtherException("ClientError", <<"Connection failed">>)}

QueryConnectionFailed ==
    /\ endpoint \in BacklogEndpoints
    /\ calls # <<>> /\ calls[1].completed
    /\ remote.query.kind = "client_error"

\* the fixed fragment m is part of the text t
HasFragment(t, m) == \E k \in 1..Len(t) : t[k] = m

\* C11: when the WIQL query fails at the connection level, with no HTTP
\* response from the remote, the operation fails with an HTTPException of
\* status 503 whose detail contains "Erro de conexão".
C11_ConnectionError503 ==
    QueryConnectionFailed =>
        /\ pc = "done"
        /\ exc.type = "HTTPException" /\ exc.status_code = 503
        /\ response.status = 503
        /\ HasFragment(response.detail, "Erro de conexão")

\* C12: every ProjectsListResponse get_projects returns has has_more true
\* exactly when continuation_token is not null, continuation_token being the
\* value of the upstream continuation header (null when absent), and count
\* equal to the number of projects.
C12_HasMoreIffToken ==
    (endpoint = "GET /projects" /\ Answered(200)) =>
        /\ response.body.continuation_token = remote.projects.token
        /\ response.body.has_more = (response.body.continuation_token # None)
        /\ response.body.count = Len(response.body.projects)
        /\ Len(response.body.projects) = Len(remote.projects.value)

C12_Witness ==
    /\ endpoint = "GET /projects" /\ Answered(200)
    /\ response.body.has_more /\ response.body.continuation_token = <<>>
    /\ response.body.count = 2 /\ response.body.total_count = {7}

NotGiven(x) == x \in {None, <<>>}

\* the entries of a comma-separated text, none for a text not given
Entries(x) == IF NotGiven(x) THEN {} ELSE {Split(x, ",")}

\* the POST /backlog body that carries what the GET /backlog query q carries
AsPostBody(q) ==
    [organization |-> q.organization, project_name |-> q.project_name, pat |-> q.pat,
     start_date |-> q.start_date, end_date |-> q.end_date,
     year |-> q.year, month |-> q.month,
     filters |->
        IF /\ NotGiven(q.work_item_types) /\ NotGiven(q.states) /\ NotGiven(q.area_paths)
           /\ NotGiven(q.iteration_paths) /\ NotGiven(q.assigned_to) /\ NotGiven(q.tags)
        THEN {}
        ELSE {[work_item_types |-> Entries(q.work_item_types),
               states          |-> Entries(q.states),
               area_paths      |-> Entries(q.area_paths),
               iteration_paths |-> Entries(q.iteration_paths),
               assigned_to     |-> Entries(q.assigned_to),
               tags            |-> q.tags]}]

\* C13: a GET /backlog request ends as POST /backlog ends for the body with
\* the same organization, project_name, pat, dates, year and month, and with
\* filters holding the comma-split lists and the tags text (no filters when
\* no filter parameter is given): same service, same arguments of
\* get_backlog_data, same outbound calls, same answer or error.
C13_GetLikePost ==
    (endpoint = "GET /backlog" /\ pc = "done") =>
        LET post == Alone(Request("POST /backlog", AsPostBody(params), settings, remote))
        IN  /\ service = post.service
            /\ args = post.args
            /\ calls = post.calls
            /\ exc = post.exc
            /\ response = post.response

C13_Witness ==
    /\ endpoint = "GET /backlog" /\ Answered(200)
    /\ args.filters # {}
    /\ TheList(args.filters).work_item_types # {}
    /\ Len(TheList(TheList(args.filters).work_item_types)) = 2
    /\ TheList(args.filters).states = {}
    /\ Truthy(TheList(args.filters).tags)
    /\ response.body.total_items = 2

\* the widths of the fields of a YYYY-MM-DD text
DateWidths(t) == LET p == Split(t, "-") IN <<Len(p[1]), Len(p[2]), Len(p[3])>>

IsYmd(t, y, m, d) ==
    /\ Len(Split(t, "-")) = 3
    /\ DateWidths(t) = <<4, 2, 2>>
    /\ DateParts(t) = <<y, m, d>>

\* the request reached get_first_and_last_day_of_month
MonthDerived ==
    /\ endpoint \in BacklogEndpoints /\ pc # "received"
    /\ ~OrgMissing /\ ~PatMissing
    /\ ~ExplicitRange /\ MonthRange

\* C14: for every year that date() accepts and every month in 1..12,
\* get_first_and_last_day_of_month returns YYYY-MM-01 and YYYY-MM-DD with DD
\* the last day of the month: 31, 30, 28, or 29 in February of a leap year.
C14_FirstAndLastDay ==
    (MonthDerived /\ TheInt(params.year) \in 1..9999 /\ TheInt(params.month) \in 1..12) =>
        LET y == TheInt(params.year)
            m == TheInt(params.month)
            r == get_first_and_last_day_of_month(y, m)
        IN  /\ r.ok
            /\ IsYmd(r.value[1], y, m, 1)
            /\ IsYmd(r.value[2], y, m, LastDayOf(y, m))

BacklogReturned == endpoint \in BacklogEndpoints /\ Answered(200)

EchoesRequest(md) ==
    /\ md.organization = FirstUsable(params.organization, settings.default_organization)
    /\ md.project = params.project_name

EchoesCounts(md) ==
    work_item_ids # <<>> =>
        /\ md.total_parents = Len(response.body.parents)
        /\ md.total_children = Len(response.body.children)

\* C15 as stated: the metadata of every BacklogResponse holds the start_date
\* and end_date the service was called with, the organization and the
\* project of the request and, after a detail fetch, the two counts.
C15_MetadataVerbatim ==
    BacklogReturned =>
        LET md == response.body.metadata IN
        /\ md.start_date = args.start_date /\ md.end_date = args.end_date
        /\ EchoesRequest(md) /\ EchoesCounts(md)

\* C15: the metadata holds the start_date and end_date the service was
\* called with (the first and last day of the month for a year and month
\* request) or, for a bound that is None, the text "none"; the organization
\* and the project of the request; and, after a detail fetch, total_parents
\* and total_children equal to the lengths of parents and children.
C15_MetadataEcho ==
    BacklogReturned =>
        LET md == response.body.metadata IN
        /\ md.start_date = (IF args.start_date = None THEN <<"none">> ELSE args.start_date)
        /\ md.end_date = (IF args.end_date = None THEN <<"none">> ELSE args.end_date)
        /\ (~ExplicitRange /\ MonthRange) =>
              /\ DateParts(md.start_date)
                    = <<TheInt(params.year), TheInt(params.month), 1>>
              /\ DateParts(md.end_date)
                    = <<TheInt(params.year), TheInt(params.month),
                        LastDayOf(TheInt(params.year), TheInt(params.month))>>
        /\ ExplicitRange =>
              md.start_date = params.start_date /\ md.end_date = params.end_date
        /\ EchoesRequest(md) /\ EchoesCounts(md)

C15_Witness ==
    /\ endpoint = "POST /backlog" /\ Answered(200)
    /\ params.year = {2024} /\ params.month = {2}
    /\ response.body.metadata.start_date
          = <<"2", "0", "2", "4", "-", "0", "2", "-", "0", "1">>
    /\ response.body.metadata.end_date
          = <<"2", "0", "2", "4", "-", "0", "2", "-", "2", "9">>
    /\ work_item_ids # <<>>
    /\ response.body.metadata.total_parents = 1

IsDetailCall(c) == c.kind = "workitems"

\* the detail calls issued so far, in order
DetailCalls == SelectSeq(calls, IsDetailCall)

RECURSIVE Concat(_)
Concat(seqs) == IF seqs = <<>> THEN <<>> ELSE Head(seqs) \o Concat(Tail(seqs))

\* ceil(n / 200)
CeilBatches(n) == IF n % 200 = 0 THEN n \div 200 ELSE (n \div 200) + 1

Smaller(a, b) == IF a <= b THEN a ELSE b

\* every detail batch was answered with status 200
DetailsFetched ==
    /\ endpoint # "GET /projects" /\ work_item_ids # <<>> /\ pc = "done"
    /\ DetailCalls # <<>>
    /\ ~Failed(remote.details[Len(DetailCalls)])

\* C16: for n > 0 IDs the k-th detail call (k from 0) carries the IDs at
\* positions 200k .. min(200k + 199, n - 1) in their order; when all batches
\* succeed there are exactly ceil(n / 200) calls, none repeated, whose
\* batches concatenated are the ID list, and the list returned is the
\* concatenation of the batch answers in batch order.
C16_Batching ==
    (endpoint # "GET /projects" /\ work_item_ids # <<>>) =>
        LET n == Len(work_item_ids) IN
        /\ Len(DetailCalls) <= CeilBatches(n)
        /\ \A k \in 0..(Len(DetailCalls) - 1) :
              /\ Len(DetailCalls[k + 1].payload) = Smaller(200, n - 200 * k)
              /\ \A j \in 1..Len(DetailCalls[k + 1].payload) :
                    DetailCalls[k + 1].payload[j] = work_item_ids[200 * k + j]
        /\ \A k, l \in 1..Len(DetailCalls) :
              k # l => DetailCalls[k].payload # DetailCalls[l].payload
        /\ DetailsFetched =>
              /\ Len(DetailCalls) = CeilBatches(n)
              /\ Concat([k \in 1..Len(DetailCalls) |-> DetailCalls[k].payload])
                    = work_item_ids
              /\ all_items
                    = Concat([k \in 1..Len(DetailCalls) |-> remote.details[k].value])

C16_Witness ==
    /\ endpoint = "POST /backlog" /\ DetailsFetched
    /\ Len(work_item_ids) = 401 /\ Len(DetailCalls) = 3
    /\ Len(DetailCalls[3].payload) = 1
    /\ Len(remote.details[1].value) = 1 /\ Len(remote.details[3].value) = 1
    /\ remote.details[1].value # remote.details[3].value
    /\ Answered(200)

DetailRefused == endpoint # "GET /projects" /\ UpstreamRefused /\ LastCall.kind = "workitems"

\* C17: when a detail batch is answered with a non-success status the
\* operation ends with an HTTPException carrying that status: the failed
\* batch is the last call issued and was issued once, and the request ends
\* with an error and no BacklogResponse, whatever earlier batches returned.
C17_BatchFailureAborts ==
    DetailRefused =>
        /\ pc = "done"
        /\ exc.type = "HTTPException" /\ exc.status_code = LastOutcome.status
        /\ response.status >= 400 /\ response.body = None
        /\ endpoint \in BacklogEndpoints => response.status = LastOutcome.status
        /\ Len(DetailCalls) = (i \div 200) + 1
        /\ \A k \in 1..Len(DetailCalls) : Len(DetailCalls[k].payload) > 0
        /\ \A k \in 1..(Len(DetailCalls) - 1) :
              /\ DetailCalls[k].completed
              /\ DetailCalls[k].payload # LastCall.payload
              /\ remote.details[k].status = 200

C17_Witness ==
    /\ endpoint = "GET /backlog" /\ DetailRefused
    /\ Len(work_item_ids) = 401 /\ Len(DetailCalls) = 2
    /\ Len(all_items) = 1
    /\ Answered(500)

InFlight == {k \in 1..Len(calls) : ~calls[k].completed}

\* C18: the outbound calls of a request are strictly ordered: the WIQL
\* query has completed, with IDs, before the first detail batch is issued,
\* batch k + 1 is issued only after batch k has completed with status 200,
\* and at most one call, the last issued, is in flight.
C18_OneCallAtATime ==
    /\ Cardinality(InFlight) <= 1
    /\ InFlight \subseteq {Len(calls)}
    /\ (InFlight # {}) = (pc \in {"wiql", "workitems", "projects"})
    /\ endpoint # "GET /projects" =>
          /\ \A k \in 1..Len(calls) : (calls[k].kind = "wiql") = (k = 1)
          /\ \A k \in 2..Len(calls) : calls[k].kind = "workitems"
          /\ Len(calls) >= 2 =>
                /\ calls[1].completed
                /\ remote.query.kind = "response" /\ remote.query.status = 200
          /\ \A k \in 1..(Len(DetailCalls) - 1) :
                /\ DetailCalls[k].completed
                /\ remote.details[k].kind = "response" /\ remote.details[k].status = 200

C18_Witness ==
    /\ endpoint = "POST /backlog" /\ pc = "workitems"
    /\ Len(DetailCalls) = 3 /\ InFlight = {4}
    /\ Len(all_items) = 2

\* the request as it arrived
Arrived(r) == Request(r.endpoint, r.params, r.settings, r.remote)

\* C19: a request served together with others, their segments interleaved
\* in any order, ends with the service, the outbound calls, the error and
\* the answer it has when served alone with the same inputs and the same
\* upstream answers.
C19_Isolation ==
    \A id \in RequestIds :
        requests[id].pc = "done" =>
            LET alone == Alone(Arrived(requests[id])) IN
            /\ requests[id].calls = alone.calls
            /\ requests[id].exc = alone.exc
            /\ requests[id].response = alone.response
            /\ requests[id].service = services[id]

C19_Witness ==
    /\ \A id \in RequestIds : requests[id].pc = "done"
    /\ requests[1].response.status = 200 /\ requests[2].response.status = 200
    /\ services[1] # services[2]
    /\ Len(requests[1].calls) = 3 /\ Len(requests[2].calls) = 2
    /\ {1, 2} \subseteq overlapped

\* the request reached _query_work_items with a WorkItemFilters value
Filtered == endpoint \in BacklogEndpoints /\ calls # <<>> /\ args.filters # {}

GivenList(o) == o \notin {{}, {<<>>}}

GivenText(t) == t \notin {None, <<>>}

\* how many of the clauses cl apply the operator op to the field
CountOf(cl, field, op) ==
    Cardinality({k \in 1..Len(cl) : cl[k][1] = field /\ cl[k][2] = op})

One(b) == IF b THEN 1 ELSE 0

Size(o) == IF GivenList(o) THEN Len(TheList(o)) ELSE 0

\* the clauses holding each path of the list o in an UNDER of its own
OnePerPath(cl, field, o) ==
    /\ CountOf(cl, field, " UNDER ") = Size(o)
    /\ CountOf(cl, field, " IN (") = 0
    /\ \A j \in 1..Size(o) :
          \E k \in 1..Len(cl) : cl[k] = <<field, " UNDER ", "'">> \o TheList(o)[j] \o <<"'">>

\* C20: _build_filter_clauses yields one IN clause for each non-empty
\* category among work_item_types, states and assigned_to, one UNDER clause
\* per path of area_paths and of iteration_paths and never an IN list of
\* paths, one CONTAINS clause when tags is non-empty, and nothing else; a
\* WorkItemFilters with every field absent or empty gives the query that no
\* filters give.
C20_FilterClauses ==
    Filtered =>
        LET f  == TheList(args.filters)
            cl == _build_filter_clauses(f)
        IN  /\ CountOf(cl, "[System.WorkItemType]", " IN (") = One(GivenList(f.work_item_types))
            /\ CountOf(cl, "[System.State]", " IN (") = One(GivenList(f.states))
            /\ CountOf(cl, "[System.AssignedTo]", " IN (") = One(GivenList(f.assigned_to))
            /\ OnePerPath(cl, "[System.AreaPath]", f.area_paths)
            /\ OnePerPath(cl, "[System.IterationPath]", f.iteration_paths)
            /\ CountOf(cl, "[System.Tags]", " CONTAINS ") = One(GivenText(f.tags))
            /\ Len(cl) = One(GivenList(f.work_item_types)) + One(GivenList(f.states))
                            + One(GivenList(f.assigned_to)) + Size(f.area_paths)
                            + Size(f.iteration_paths) + One(GivenText(f.tags))
            /\ Len(cl) = 0 =>
                  calls[1].payload
                      = wiql(service.project_name, args.start_date, args.end_date, {})

C20_Witness ==
    /\ endpoint = "POST /backlog" /\ Filtered
    /\ Size(TheList(args.filters).work_item_types) = 2
    /\ Size(TheList(args.filters).area_paths) = 2
    /\ GivenText(TheList(args.filters).tags)
    /\ TheList(args.filters).states = {}
    /\ Len(_build_filter_clauses(TheList(args.filters))) >= 4

\* the clauses of the query q: the text between WHERE and ORDER BY, cut at
\* every AND
QueryClauses(q) == Split(SubSeq(q, 2, Len(q) - 1), " AND ")

QueryPosted == calls # <<>> /\ calls[1].kind = "wiql"

\* C21: every query _query_work_items builds has the project-name clause
\* first, holds the created-on-or-after clause exactly when start_date is
\* non-empty and the created-on-or-before clause exactly when end_date is
\* non-empty, each whatever the other bound is, joins these and the filter
\* clauses with AND, and asks for descending order of creation date.
C21_QueryClauses ==
    QueryPosted =>
        LET q  == calls[1].payload
            cl == QueryClauses(q)
            fc == IF args.filters = {} THEN <<>>
                  ELSE _build_filter_clauses(TheList(args.filters))
            nd == One(GivenText(args.start_date)) + One(GivenText(args.end_date))
        IN  /\ q[1] = "SELECT [System.Id] FROM WorkItems WHERE "
            /\ q[Len(q)] = " ORDER BY [System.CreatedDate] DESC"
            /\ cl[1] = <<"[System.TeamProject]", " = ", "'">> \o service.project_name \o <<"'">>
            /\ CountOf(cl, "[System.TeamProject]", " = ") = 1
            /\ CountOf(cl, "[System.CreatedDate]", " >= ") = One(GivenText(args.start_date))
            /\ CountOf(cl, "[System.CreatedDate]", " <= ") = One(GivenText(args.end_date))
            /\ GivenText(args.start_date) =>
                  cl[2] = <<"[System.CreatedDate]", " >= ", "'">> \o args.start_date \o <<"'">>
            /\ GivenText(args.end_date) =>
                  cl[1 + nd] = <<"[System.CreatedDate]", " <= ", "'">> \o args.end_date \o <<"'">>
            /\ Len(cl) = 1 + nd + Len(fc)
            /\ \A k \in 1..Len(fc) : cl[1 + nd + k] = fc[k]

C21_Witness ==
    /\ QueryPosted /\ pc = "returned"
    /\ ~GivenText(args.start_date) /\ GivenText(args.end_date)
    /\ args.filters # {}
    /\ Len(QueryClauses(calls[1].payload)) >= 4

\* a backlog endpoint has answered with the service's BacklogResponse
BacklogAnswered == endpoint \in BacklogEndpoints /\ Answered(200)

\* the items of the answer, and in the same order the raw items they were
\* built from
Normalized == response.body.parents \o response.body.children

Fetched == SelectSeq(all_items, IsParentType) \o SelectSeq(all_items, IsChildType)

NoRelations(raw) == raw.relations \in {Missing, Null, Array(<<>>)}

IsReverse(rel) == rel.rel = <<"System.LinkTypes.Hierarchy-Reverse">>

HasReverse(raw) ==
    /\ raw.relations.json = "array"
    /\ \E k \in 1..Len(raw.relations.items) : IsReverse(raw.relations.items[k])

FirstReverse(raw) ==
    LET l == raw.relations.items
    IN  l[CHOOSE k \in 1..Len(l) : IsReverse(l[k]) /\ \A j \in 1..(k - 1) : ~IsReverse(l[j])]

HasUrl(rel) == rel.url \notin {Absent, None, <<>>}

LastSegment(url) == Split(url, "/")[Len(Split(url, "/"))]

\* the item out has the parent that the relation rel names
ParentIs(out, rel) ==
    /\ HasUrl(rel)
    /\ LastSegment(rel.url) # <<>> /\ AllDigits(LastSegment(rel.url))
    /\ out.parent_id = {Num(LastSegment(rel.url))}
    /\ out.parent_link = rel.url

NoParent(out) == out.parent_id = {} /\ out.parent_link = None

\* C22 as stated: an item built from a raw item without relations has
\* neither parent_id nor parent_link, and one built from a raw item with a
\* reverse-hierarchy relation has both, the id parsed from the last segment
\* of that relation's URL and the link equal to the URL.
C22_ParentOfAnyLink ==
    BacklogAnswered =>
        \A k \in 1..Len(Normalized) :
            /\ NoRelations(Fetched[k]) => NoParent(Normalized[k])
            /\ HasReverse(Fetched[k]) =>
                  \E j \in 1..Len(Fetched[k].relations.items) :
                      /\ IsReverse(Fetched[k].relations.items[j])
                      /\ ParentIs(Normalized[k], Fetched[k].relations.items[j])

\* C22 amended: an item built from a raw item without relations has neither
\* parent_id nor parent_link, and one built from a raw item whose first
\* reverse-hierarchy relation has a non-empty URL has both, the id parsed
\* from the last segment of that URL and the link equal to the URL.
C22_ParentOfFirstLink ==
    BacklogAnswered =>
        \A k \in 1..Len(Normalized) :
            /\ NoRelations(Fetched[k]) => NoParent(Normalized[k])
            /\ (HasReverse(Fetched[k]) /\ HasUrl(FirstReverse(Fetched[k]))) =>
                  ParentIs(Normalized[k], FirstReverse(Fetched[k]))

C22_Witness ==
    /\ BacklogAnswered /\ Len(Normalized) = 1
    /\ HasReverse(Fetched[1]) /\ Len(Fetched[1].relations.items) = 1
    /\ Normalized[1].parent_id = {12}
    /\ Normalized[1].parent_link = <<WorkItemsUrl, "/", "1", "2">>

\* C23: the parent of a normalized item is decided by the first
\* reverse-hierarchy relation of the raw item alone: relations of other
\* types before it are passed over, and when it has no URL the item has no
\* parent even if a later reverse-hierarchy relation has one.
C23_FirstReverseOnly ==
    BacklogAnswered =>
        \A k \in 1..Len(Normalized) :
            HasReverse(Fetched[k]) =>
                IF HasUrl(FirstReverse(Fetched[k]))
                THEN ParentIs(Normalized[k], FirstReverse(Fetched[k]))
                ELSE NoParent(Normalized[k])

C23_Witness ==
    /\ BacklogAnswered /\ Len(Normalized) = 1
    /\ HasReverse(Fetched[1]) /\ Len(Fetched[1].relations.items) = 3
    /\ ~IsReverse(Fetched[1].relations.items[1])
    /\ IsReverse(Fetched[1].relations.items[2]) /\ IsReverse(Fetched[1].relations.items[3])
    /\ Fetched[1].relations.items[2].url = <<WorkItemsUrl, "/", "7">>
    /\ Fetched[1].relations.items[3].url = <<WorkItemsUrl, "/", "1", "2">>
    /\ Normalized[1].parent_id = {7}

\* C28: every normalized item has parent_id and parent_link both or
\* neither; an item whose first reverse-hierarchy relation has an empty, a
\* null or no URL has neither.
C28_ParentPair ==
    BacklogAnswered =>
        \A k \in 1..Len(Normalized) :
            /\ Normalized[k].parent_id = {} <=> Normalized[k].parent_link = None
            /\ (HasReverse(Fetched[k]) /\ ~HasUrl(FirstReverse(Fetched[k]))) =>
                  NoParent(Normalized[k])

C28_Witness ==
    /\ BacklogAnswered /\ Len(Normalized) = 1
    /\ HasReverse(Fetched[1])
    /\ FirstReverse(Fetched[1]).url = <<>>
    /\ NoParent(Normalized[1])

\* the field of the normalized item out that is built from the date key
DateField(out, key) ==
    CASE key = "Microsoft.VSTS.Scheduling.StartDate" -> out.start_date
      [] key = "Microsoft.VSTS.Scheduling.FinishDate" -> out.finish_date
      [] key = "System.CreatedDate" -> out.created_date
      [] key = "System.ChangedDate" -> out.changed_date
      [] key = "Microsoft.VSTS.Common.ClosedDate" -> out.closed_date

Parseable(j) == j.json = "string" /\ isoparse_ok(j.text)

\* the date of the timestamp t written as DD/MM/YYYY
DayMonthYear(t) == <<t[9], t[10], "/", t[6], t[7], "/", t[1], t[2], t[3], t[4]>>

\* the raw items a and b differ in their date fields at most
SameButDates(a, b) ==
    /\ a.id = b.id /\ a.relations = b.relations
    /\ \A k \in FieldKeys \ DateKeys : a.fields[k] = b.fields[k]

\* C24: format_date never raises: every date field of a normalized item is
\* the date of the raw timestamp as DD/MM/YYYY when the raw value is a
\* parseable ISO-8601 timestamp and absent when it is absent, empty or
\* unparsable, and a request whose item is sound but for its date fields is
\* answered.
C24_FormatDate ==
    /\ BacklogAnswered =>
          \A k \in 1..Len(Normalized) : \A key \in DateKeys :
              DateField(Normalized[k], key)
                  = IF Parseable(Fetched[k].fields[key])
                    THEN DayMonthYear(Fetched[k].fields[key].text)
                    ELSE None
    /\ (pc = "done" /\ Len(all_items) = 1 /\ SameButDates(all_items[1], FullItem)) =>
          response.status = 200

\* the field of the normalized item out that is built from the key of the
\* raw field mapping is absent (null)
FieldAbsent(out, key) ==
    CASE key = "System.State" -> out.state = None
      [] key = "System.WorkItemType" -> out.work_item_type = None
      [] key = "System.Tags" -> out.tags = None
      [] key = "System.CreatedBy" -> out.created_by = None
      [] key = "System.AssignedTo" -> out.assigned_to = None
      [] key = "System.AreaPath" -> out.area_path = None
      [] key = "System.TeamProject" -> out.team_project = None
      [] key = "System.IterationPath" -> out.iteration_path = None
      [] key = "Microsoft.VSTS.Scheduling.CompletedWork" -> out.completed_work = {}
      [] key = "Microsoft.VSTS.Scheduling.OriginalEstimate" -> out.original_estimate = {}
      [] key \in DateKeys -> DateField(out, key) = None

\* C25: in every normalized item, each field other than id and title whose
\* source key the raw item lacks is absent (null): state, type, tags,
\* created-by, assigned-to, area path, project name, iteration path, the two
\* efforts, the five dates, and with no relations key the parent id and link.
C25_AbsentStaysAbsent ==
    BacklogAnswered =>
        \A k \in 1..Len(Normalized) :
            /\ \A key \in FieldKeys \ {"System.Title"} :
                  Fetched[k].fields[key] = Missing => FieldAbsent(Normalized[k], key)
            /\ Fetched[k].relations = Missing => NoParent(Normalized[k])

\* exactly one of the explicit bounds is given
LoneBound == Truthy(params.start_date) # Truthy(params.end_date)

NoDateClause(q) ==
    /\ CountOf(QueryClauses(q), "[System.CreatedDate]", " >= ") = 0
    /\ CountOf(QueryClauses(q), "[System.CreatedDate]", " <= ") = 0

\* C27: get_backlog calls the service with start_date and end_date both
\* non-empty or both None; a request with one explicit bound only and no
\* year and month reaches the service without dates, its query has no date
\* clause, and it is not rejected for that bound.
C27_BothOrNeither ==
    endpoint \in BacklogEndpoints =>
        /\ calls # <<>> =>
              \/ args.start_date = None /\ args.end_date = None
              \/ Truthy(args.start_date) /\ Truthy(args.end_date)
        /\ (LoneBound /\ ~MonthRange) =>
              /\ calls # <<>> =>
                    /\ args.start_date = None /\ args.end_date = None
                    /\ NoDateClause(calls[1].payload)
              /\ (pc # "received" /\ ~(OrgMissing \/ PatMissing)) => calls # <<>>

C27_Witness ==
    /\ endpoint = "GET /backlog" /\ Answered(200)
    /\ Malformed(params.start_date) /\ params.end_date = None
    /\ ~MonthRange
    /\ args.start_date = None

DatesMalformed ==
    ExplicitRange /\ (Malformed(params.start_date) \/ Malformed(params.end_date))

NothingBuilt == calls = <<>> /\ service = NoService

\* C29: get_backlog resolves the organization, then the credential, then
\* the dates, and validates the dates before it builds the service: a request
\* without organization ends with the 400 about the organization, one with
\* an organization but no credential with the 400 about the credential even
\* when its dates are malformed, one with both and malformed dates with the
\* 400 about the date format, and in all three nothing was built or called.
C29_FixedOrder ==
    endpoint \in BacklogEndpoints =>
        /\ OrgMissing =>
              /\ NothingBuilt
              /\ pc = "done" => response.status = 400 /\ response.detail[1] = "organization"
        /\ (~OrgMissing /\ PatMissing) =>
              /\ NothingBuilt
              /\ pc = "done" =>
                    response.status = 400 /\ response.detail[1] = "Personal Access Token"
        /\ (~OrgMissing /\ ~PatMissing /\ DatesMalformed) =>
              /\ NothingBuilt
              /\ pc = "done" =>
                    /\ response.status = 400
                    /\ response.detail = <<"Formato de data inválido. Use YYYY-MM-DD">>

C29_Witness ==
    /\ endpoint = "POST /backlog" /\ pc = "done"
    /\ ~OrgMissing /\ PatMissing /\ DatesMalformed
    /\ response.status = 400 /\ response.detail[1] = "Personal Access Token"

\* the request has its one outcome: a complete answer or an error
OneOutcome ==
    \/ /\ response.status = 200 /\ response.detail = None /\ exc = NoExc
       /\ endpoint # "GET /projects" =>
              Len(DetailCalls) = CeilBatches(Len(work_item_ids))
    \/ response.status >= 400 /\ response.detail # None /\ exc # NoExc

\* the outbound calls stay within one query and one call per 200 IDs
CallsBounded ==
    /\ Len(DetailCalls) <= CeilBatches(Len(work_item_ids))
    /\ Len(calls) <= 1 + CeilBatches(Len(work_item_ids))

\* C30: when every outbound call is answered, every request comes to an end,
\* with one outcome that is a complete answer or an error and that nothing
\* changes afterwards; the batch loop issues at most ceil(n/200) calls for n
\* IDs and the request at most 1 + ceil(n/200) calls.
C30_Terminates ==
    /\ <>(pc = "done")
    /\ [](IF pc = "done" THEN OneOutcome ELSE response = NoResponse)
    /\ [][pc # "done" /\ <<pc, i>>' # <<pc, i>>]_vars
    /\ [](CallsBounded)

C30_Witness ==
    /\ endpoint = "POST /backlog" /\ Answered(200)
    /\ Len(work_item_ids) = 2 * batch_size + 1
    /\ Len(DetailCalls) = 3 /\ Len(calls) = 4

\* the endpoints whose request may carry a credential
TakesPat == {"POST /backlog", "GET /backlog", "GET /projects"}

\* the credentials of the request being served: the one it carries and the
\* one configured
Credentials ==
    {c \in (IF endpoint \in TakesPat THEN {params.pat} ELSE {}) \cup {settings.azure_devops_pat} :
        Truthy(c)}

\* the same request, with the same configuration and the same remote, run
\* with another credential in the request, and with another one configured
WithOtherCredential ==
    (IF endpoint \in TakesPat
     THEN {Alone(Request(endpoint, [params EXCEPT !.pat = <<"other-pat">>], settings, remote))}
     ELSE {})
    \cup {Alone(Request(endpoint, params,
                        [settings EXCEPT !.azure_devops_pat = <<"other-env-pat">>], remote))}

\* the run r received the answers this request received
SameResponses(r) ==
    /\ Len(r.calls) = Len(calls)
    /\ \A k \in 1..Len(calls) : r.calls[k].kind = calls[k].kind

\* the request is served with a credential: the endpoint takes it from the
\* configuration alone, or the request carries one, or one is configured
HasCredential == endpoint \notin TakesPat \/ Credentials # {}

\* C26: no record logged while a request is served contains a credential of
\* the request, and the same request run with another credential, with the
\* same other inputs and the same upstream answers, logs the same records in
\* the same order.
C26_LogWithoutCredential ==
    pc = "done" =>
        /\ \A k \in 1..Len(log) : \A c \in Credentials : ~HasFragment(log[k].message, c[1])
        /\ HasCredential =>
              \A r \in WithOtherCredential : SameResponses(r) => r.log = log

C26_Witness ==
    /\ endpoint = "POST /backlog" /\ Answered(200)
    /\ params.pat = <<"request-pat">>
    /\ Len(log) = 8
    /\ \E r \in WithOtherCredential :
          /\ SameResponses(r)
          /\ r.calls[1].headers # calls[1].headers
          /\ r.log = log

=============================================================================
